---------------------------- MODULE Spec2Model ----------------------------
(***************************************************************************)
(* A model of the Device Tree Explorer core (namespace DTE): the property  *)
(* value model and the tree model of DeviceTree.cpp, the diff engine of    *)
(* DeviceTreeDiff.cpp and the header validation and structure walk of the  *)
(* binary decoder of DeviceTreeParser.cpp.                                 *)
(*                                                                         *)
(* Conventions.  A std::shared_ptr<T> is a sequence of length at most one: *)
(* <<>> is the null pointer and <<v>> points to v.  A std::string is a     *)
(* TLA+ string, + is \o.  A std::vector is a sequence.                     *)
(***************************************************************************)
EXTENDS Integers, Sequences, FiniteSets, TLC

VARIABLES
    baseTree,       \* DeviceTreeDiff::baseTree_   (shared_ptr<DeviceTree>)
    overlayTree,    \* DeviceTreeDiff::overlayTree_
    aliased,        \* both shared_ptr designate the same DeviceTree object
    diffCache,      \* DeviceTreeDiff::diffCache_
    diffGenerated,  \* DeviceTreeDiff::diffGenerated_
    stats,          \* DiffVisualizer::stats_
    statsCalculated,\* DiffVisualizer::statsCalculated_
    lastCall,       \* the last engine call made and what it returned
    nOps,           \* number of tree mutation calls made so far
    dtbInput,       \* the bytes of the file handed to DTBParser::parse
    hostLE,         \* the build reads a uint32_t little-endian
    dtbState,       \* progress and outcome of DTBParser::parse
    dtsInput,       \* the lines of the file handed to DTSParser::parse
    dtsState,       \* progress and outcome of DTSParser::parse
    selInput,       \* the file name and the file createParser is called on
    selState,       \* progress and outcome of createParser
    heap,           \* the DeviceTreeNode objects a caller holds
    heapCall,       \* the last call made on a node and what it returned
    nCalls          \* number of calls made on the nodes so far

vars == <<baseTree, overlayTree, aliased, diffCache, diffGenerated, stats,
          statsCalculated, lastCall, nOps, dtbInput, hostLE, dtbState,
          dtsInput, dtsState, selInput, selState, heap, heapCall, nCalls>>

diffVars == <<baseTree, overlayTree, aliased, diffCache, diffGenerated, stats,
              statsCalculated, lastCall, nOps>>

dtbVars == <<dtbInput, hostLE, dtbState>>

dtsVars == <<dtsInput, dtsState>>

selVars == <<selInput, selState>>

heapVars == <<heap, heapCall, nCalls>>

\* The variables the diff engine and the tree mutation API leave alone.
decoderVars == <<dtbVars, dtsVars, selVars, heapVars>>

----------------------------------------------------------------------------
(* Bounds of the model.                                                    *)

\* Tree mutation calls (addChild, addProperty, removeChild, ...) per run.
MaxOps == 1

----------------------------------------------------------------------------
(* Generic helpers.                                                        *)

Null == <<>>

Some(v) == <<v>>

RECURSIVE Concat(_)
\* The concatenation of a sequence of sequences.
Concat(ss) == IF ss = <<>> THEN <<>> ELSE Head(ss) \o Concat(Tail(ss))

\* The character codes of the names the model draws from (std::string
\* compares byte by byte).
CharCodes ==
    ("/" :> <<47>>) @@ ("a" :> <<97>>) @@ ("b" :> <<98>>) @@ ("c" :> <<99>>) @@
    ("x" :> <<120>>) @@ ("child@0" :> <<99, 104, 105, 108, 100, 64, 48>>)

RECURSIVE LexLess(_, _)
\* std::lexicographical_compare on two code sequences.
LexLess(s, t) ==
    IF t = <<>> THEN FALSE
    ELSE IF s = <<>> THEN TRUE
    ELSE IF Head(s) # Head(t) THEN Head(s) < Head(t)
    ELSE LexLess(Tail(s), Tail(t))

\* std::less<std::string>, the key order of std::map<std::string, T>.
StringLess(a, b) == LexLess(CharCodes[a], CharCodes[b])

RECURSIVE SortedKeysDescending(_)
\* SortedKeys under the reversed comparison (std::greater).
SortedKeysDescending(S) ==
    IF S = {} THEN <<>>
    ELSE LET m == CHOOSE k \in S : \A o \in S \ {k} : StringLess(o, k)
         IN  <<m>> \o SortedKeysDescending(S \ {m})

RECURSIVE SortedKeys(_)
\* The keys of a std::map in iteration order (ascending).
SortedKeys(S) ==
    IF S = {} THEN <<>>
    ELSE LET m == CHOOSE k \in S : \A o \in S \ {k} : StringLess(k, o)
         IN  <<m>> \o SortedKeys(S \ {m})

HexDigits == <<"0", "1", "2", "3", "4", "5", "6", "7",
               "8", "9", "a", "b", "c", "d", "e", "f">>

RECURSIVE Hex(_)
\* operator<< of an unsigned integer under std::hex.
Hex(n) == IF n < 16 THEN HexDigits[n + 1]
          ELSE Hex(n \div 16) \o HexDigits[(n % 16) + 1]

\* The same under std::setw(2) << std::setfill('0').
Hex2(n) == IF n < 16 THEN "0" \o Hex(n) ELSE Hex(n)

----------------------------------------------------------------------------
(* Value model: DeviceTreeProperty.                                        *)

StringValue(s) == [kind |-> "string", str |-> s, data |-> <<>>]

BinaryValue(d) == [kind |-> "binary", str |-> "", data |-> d]

CellsValue(d) == [kind |-> "cells", str |-> "", data |-> d]

Cells64Value(d) == [kind |-> "cells64", str |-> "", data |-> d]

DeviceTreeProperty(name, value) == [name |-> name, value |-> value]

isString(prop) == prop.value.kind = "string"

isBinary(prop) == prop.value.kind = "binary"

isCells(prop) == prop.value.kind = "cells"

isCells64(prop) == prop.value.kind = "cells64"

RECURSIVE JoinHex(_, _, _)
\* The loop body of getValueAsString: element i is preceded by " " when
\* i > 0 and printed as "0x" followed by its hexadecimal digits.
JoinHex(d, i, two) ==
    IF i > Len(d) THEN ""
    ELSE (IF i > 1 THEN " " ELSE "") \o "0x"
         \o (IF two THEN Hex2(d[i]) ELSE Hex(d[i]))
         \o JoinHex(d, i + 1, two)

getValueAsString(prop) ==
    IF isString(prop) THEN "\"" \o prop.value.str \o "\""
    ELSE IF isBinary(prop) THEN "[" \o JoinHex(prop.value.data, 1, TRUE) \o "]"
    ELSE IF isCells(prop) THEN "<" \o JoinHex(prop.value.data, 1, FALSE) \o ">"
    ELSE IF isCells64(prop) THEN "<" \o JoinHex(prop.value.data, 1, FALSE) \o ">"
    ELSE ""

getValueAsBinary(prop) == IF isBinary(prop) THEN prop.value.data ELSE <<>>

getValueAsCells(prop) == IF isCells(prop) THEN prop.value.data ELSE <<>>

getValueAsCells64(prop) == IF isCells64(prop) THEN prop.value.data ELSE <<>>

----------------------------------------------------------------------------
(* Tree model: DeviceTreeNode and DeviceTree.  A node owns its children,   *)
(* so a node is the record of its name, its properties and its children;   *)
(* a node of a tree is addressed by the sequence of child indices that     *)
(* leads to it from the root.                                              *)

DeviceTreeNode(name) == [name |-> name, properties |-> <<>>, children |-> <<>>]

\* DeviceTree::DeviceTree(): the root is a fresh node named "/".
DeviceTree == [root |-> Some(DeviceTreeNode("/"))]

removeProperty(node, name) ==
    [node EXCEPT !.properties = SelectSeq(@, LAMBDA p : p.name # name)]

\* An addProperty that does not remove the property of the same name.
addPropertyAppend(node, property) ==
    [node EXCEPT !.properties = Append(@, property)]

addProperty(node, property) ==
    [removeProperty(node, property.name) EXCEPT
        !.properties = Append(@, property)]

addChild(node, child) ==
    IF child = Null THEN node
    ELSE [node EXCEPT !.children = Append(@, child[1])]

\* removeChild(child) for the child that stands at index i of children_:
\* std::find returns the first position holding that pointer.
removeChild(node, i) ==
    IF i \in 1..Len(node.children)
    THEN [node EXCEPT !.children =
            SubSeq(@, 1, i - 1) \o SubSeq(@, i + 1, Len(@))]
    ELSE node

RECURSIVE NodePaths(_)
\* The index paths of all nodes below and including `node`.
NodePaths(node) ==
    {<<>>} \cup UNION { { <<i>> \o p : p \in NodePaths(node.children[i]) }
                        : i \in 1..Len(node.children) }

RECURSIVE NodeAt(_, _)
NodeAt(node, p) ==
    IF p = <<>> THEN node ELSE NodeAt(node.children[Head(p)], Tail(p))

RECURSIVE UpdateAt(_, _, _)
\* `node` with the node at index path p replaced by n.
UpdateAt(node, p, n) ==
    IF p = <<>> THEN n
    ELSE [node EXCEPT !.children[Head(p)] = UpdateAt(@, Tail(p), n)]

----------------------------------------------------------------------------
(* Diff engine: DeviceTreeDiff.                                            *)

\* An entry whose old value is never filled in.
DiffEntryWithoutOld(type, path, propertyName, oldValue, newValue, description) ==
    [type |-> type, path |-> path, propertyName |-> propertyName,
     oldValue |-> "", newValue |-> newValue, description |-> description]

DiffEntry(type, path, propertyName, oldValue, newValue, description) ==
    [type |-> type, path |-> path, propertyName |-> propertyName,
     oldValue |-> oldValue, newValue |-> newValue, description |-> description]

\* A map that keeps the first element of each name.
NameMapFirst(xs) ==
    [n \in { xs[i].name : i \in 1..Len(xs) } |->
        xs[CHOOSE i \in 1..Len(xs) :
              /\ xs[i].name = n
              /\ \A j \in 1..(i - 1) : xs[j].name # n]]

\* The std::map built by `for (x : xs) m[x.getName()] = x`: one entry per
\* name, holding the last element of that name.
NameMap(xs) ==
    [n \in { xs[i].name : i \in 1..Len(xs) } |->
        xs[CHOOSE i \in 1..Len(xs) :
              /\ xs[i].name = n
              /\ \A j \in (i + 1)..Len(xs) : xs[j].name # n]]

propertyValueToString(prop) == getValueAsString(prop)

\* propertiesEqual without its last branch: 64-bit cells never compare equal.
propertiesEqualNoCells64(prop1, prop2) ==
    IF isString(prop1) /\ isString(prop2)
    THEN getValueAsString(prop1) = getValueAsString(prop2)
    ELSE IF isBinary(prop1) /\ isBinary(prop2)
    THEN getValueAsBinary(prop1) = getValueAsBinary(prop2)
    ELSE IF isCells(prop1) /\ isCells(prop2)
    THEN getValueAsCells(prop1) = getValueAsCells(prop2)
    ELSE FALSE

\* An equality that compares the rendered values, whatever the kinds.
propertiesEqualByText(prop1, prop2) ==
    getValueAsString(prop1) = getValueAsString(prop2)

propertiesEqual(prop1, prop2) ==
    IF isString(prop1) /\ isString(prop2)
    THEN getValueAsString(prop1) = getValueAsString(prop2)
    ELSE IF isBinary(prop1) /\ isBinary(prop2)
    THEN getValueAsBinary(prop1) = getValueAsBinary(prop2)
    ELSE IF isCells(prop1) /\ isCells(prop2)
    THEN getValueAsCells(prop1) = getValueAsCells(prop2)
    ELSE IF isCells64(prop1) /\ isCells64(prop2)
    THEN getValueAsCells64(prop1) = getValueAsCells64(prop2)
    ELSE FALSE

\* The entries compareProperties appends to diffCache_.
compareProperties(baseNode, overlayNode, path) ==
    LET basePropMap == NameMap(baseNode.properties)
        overlayPropMap == NameMap(overlayNode.properties)
        overlayKeys == SortedKeys(DOMAIN overlayPropMap)
        baseKeys == SortedKeys(DOMAIN basePropMap)
        forOverlay(k) ==
            IF k \notin DOMAIN basePropMap
            THEN <<DiffEntry("Added", path, k, "",
                             propertyValueToString(overlayPropMap[k]),
                             "Property added: " \o k)>>
            ELSE IF ~propertiesEqual(basePropMap[k], overlayPropMap[k])
            THEN <<DiffEntry("Modified", path, k,
                             propertyValueToString(basePropMap[k]),
                             propertyValueToString(overlayPropMap[k]),
                             "Property modified: " \o k)>>
            ELSE <<>>
        forBase(k) ==
            IF k \notin DOMAIN overlayPropMap
            THEN <<DiffEntry("Removed", path, k,
                             propertyValueToString(basePropMap[k]), "",
                             "Property removed: " \o k)>>
            ELSE <<>>
    IN  Concat([i \in 1..Len(overlayKeys) |-> forOverlay(overlayKeys[i])])
        \o Concat([i \in 1..Len(baseKeys) |-> forBase(baseKeys[i])])

\* The child path compareNodes builds for a child named `name`.
ChildPath(path, name) == path \o "/" \o name

RECURSIVE compareNodes(_, _, _)
\* The entries compareNodes appends to diffCache_; baseNode and overlayNode
\* are shared_ptr<DeviceTreeNode>.
compareNodes(baseNode, overlayNode, path) ==
    IF baseNode = Null /\ overlayNode = Null THEN <<>>
    ELSE IF baseNode = Null THEN
        LET node == overlayNode[1] IN
        <<DiffEntry("Added", path, "", "", "", "Node added: " \o node.name)>>
        \o Concat([i \in 1..Len(node.children) |->
                    compareNodes(Null, Some(node.children[i]),
                                 ChildPath(path, node.children[i].name))])
    ELSE IF overlayNode = Null THEN
        LET node == baseNode[1] IN
        <<DiffEntry("Removed", path, "", "", "", "Node removed: " \o node.name)>>
        \o Concat([i \in 1..Len(node.children) |->
                    compareNodes(Some(node.children[i]), Null,
                                 ChildPath(path, node.children[i].name))])
    ELSE
        LET baseChildren == NameMap(baseNode[1].children)
            overlayChildren == NameMap(overlayNode[1].children)
            overlayKeys == SortedKeys(DOMAIN overlayChildren)
            baseKeys == SortedKeys(DOMAIN baseChildren)
            forOverlay(k) ==
                IF k \notin DOMAIN baseChildren
                THEN compareNodes(Null, Some(overlayChildren[k]),
                                  ChildPath(path, k))
                ELSE compareNodes(Some(baseChildren[k]),
                                  Some(overlayChildren[k]), ChildPath(path, k))
            forBase(k) ==
                IF k \notin DOMAIN overlayChildren
                THEN compareNodes(Some(baseChildren[k]), Null,
                                  ChildPath(path, k))
                ELSE <<>>
        IN  compareProperties(baseNode[1], overlayNode[1], path)
            \o Concat([i \in 1..Len(overlayKeys) |-> forOverlay(overlayKeys[i])])
            \o Concat([i \in 1..Len(baseKeys) |-> forBase(baseKeys[i])])

\* isValid with || in place of &&.
isValidEither(base, overlay) == base # Null \/ overlay # Null

isValid(base, overlay) == base # Null /\ overlay # Null

\* The engine after generateDiffInternal: the cache is cleared, and filled
\* and marked generated only when both trees are there.  getRoot() on a
\* null DeviceTree pointer is a null dereference (raised).
generateDiffInternal(base, overlay) ==
    IF ~isValid(base, overlay)
    THEN [cache |-> <<>>, generated |-> FALSE, raised |-> FALSE]
    ELSE IF base = Null \/ overlay = Null
    THEN [cache |-> <<>>, generated |-> FALSE, raised |-> TRUE]
    ELSE [cache |-> compareNodes(base[1].root, overlay[1].root, "/"),
          generated |-> TRUE, raised |-> FALSE]

\* generateDiff without the diffGenerated_ test: every call compares anew.
generateDiffAlways(base, overlay, cache, generated) ==
    generateDiffInternal(base, overlay)

\* The engine after generateDiff(); the call returns the field `cache`.
generateDiff(base, overlay, cache, generated) ==
    IF ~generated THEN generateDiffInternal(base, overlay)
    ELSE [cache |-> cache, generated |-> generated, raised |-> FALSE]

\* The loops of getAddedNodes, getRemovedNodes and getModifiedProperties
\* over the sequence generateDiff() returned.
\* getAddedNodes without the propertyName test.
getAddedNodesAnyLevel(diff) == SelectSeq(diff, LAMBDA e : e.type = "Added")

getAddedNodes(diff) ==
    SelectSeq(diff, LAMBDA e : e.type = "Added" /\ e.propertyName = "")

getRemovedNodes(diff) ==
    SelectSeq(diff, LAMBDA e : e.type = "Removed" /\ e.propertyName = "")

getModifiedProperties(diff) ==
    SelectSeq(diff, LAMBDA e : e.type = "Modified" /\ e.propertyName # "")

RECURSIVE StatsLoop(_, _, _)
\* The loop of calculateStats from entry i on, st holding the counters.
StatsLoop(diff, i, st) ==
    IF i > Len(diff) THEN st
    ELSE LET entry == diff[i] IN
         StatsLoop(diff, i + 1,
            IF entry.propertyName = ""
            THEN IF entry.type = "Added"
                 THEN [st EXCEPT !.addedNodes = @ + 1]
                 ELSE IF entry.type = "Removed"
                 THEN [st EXCEPT !.removedNodes = @ + 1]
                 ELSE st
            ELSE IF entry.type = "Added"
                 THEN [st EXCEPT !.addedProperties = @ + 1]
                 ELSE IF entry.type = "Removed"
                 THEN [st EXCEPT !.removedProperties = @ + 1]
                 ELSE IF entry.type = "Modified"
                 THEN [st EXCEPT !.modifiedProperties = @ + 1]
                 ELSE st)

\* DiffVisualizer::calculateStats over the sequence generateDiff() returned.
calculateStats(diff) ==
    StatsLoop(diff, 1,
        [totalChanges |-> Len(diff), addedNodes |-> 0, removedNodes |-> 0,
         modifiedProperties |-> 0, addedProperties |-> 0,
         removedProperties |-> 0])

NoStats ==
    [totalChanges |-> 0, addedNodes |-> 0, removedNodes |-> 0,
     modifiedProperties |-> 0, addedProperties |-> 0, removedProperties |-> 0]

----------------------------------------------------------------------------
(* The diff engine as a state machine: an engine and a visualizer built on *)
(* two trees, the calls made on them, and the tree mutation API called on  *)
(* the two trees in between.                                               *)

NodeNames == {"a", "c"}

PropNames == {"a", "x"}

PropValues == {StringValue("2"), CellsValue(<<1>>), Cells64Value(<<1>>)}

TreeWith(root) == [root |-> Some(root)]

Leaf(name, props) ==
    [name |-> name, properties |-> props, children |-> <<>>]

Root(props, children) ==
    [name |-> "/", properties |-> props, children |-> children]

\* The trees of the end-to-end scenarios: a = "1" against a = "2"; an empty
\* root against child@0 { x = <1>; }; children b, a against children a, c.
ScenarioBBase ==
    TreeWith(Root(<<DeviceTreeProperty("a", StringValue("1"))>>, <<>>))

ScenarioBOverlay ==
    TreeWith(Root(<<DeviceTreeProperty("a", StringValue("2"))>>, <<>>))

ScenarioCOverlay ==
    TreeWith(Root(<<>>,
        <<Leaf("child@0", <<DeviceTreeProperty("x", CellsValue(<<1>>))>>)>>))

OrderBase == TreeWith(Root(<<>>, <<Leaf("b", <<>>), Leaf("a", <<>>)>>))

OrderOverlay == TreeWith(Root(<<>>, <<Leaf("a", <<>>), Leaf("c", <<>>)>>))

\* A tree with properties of all four kinds and two children named "a".
RichTree ==
    TreeWith(Root(<<DeviceTreeProperty("a", StringValue("1")),
                    DeviceTreeProperty("x", BinaryValue(<<1>>))>>,
        <<Leaf("a", <<DeviceTreeProperty("x", CellsValue(<<1>>))>>),
          Leaf("b", <<>>),
          Leaf("a", <<DeviceTreeProperty("x", Cells64Value(<<1>>))>>)>>))

\* The engines the model starts from: <<base, overlay, same object>>.
InitEngines ==
    {<<Some(DeviceTree), Some(DeviceTree), FALSE>>,
     <<Some(DeviceTree), Some(DeviceTree), TRUE>>,
     <<Null, Some(DeviceTree), FALSE>>,
     <<Some(DeviceTree), Null, FALSE>>,
     <<Null, Null, FALSE>>,
     <<Some(ScenarioBBase), Some(ScenarioBOverlay), FALSE>>,
     <<Some(DeviceTree), Some(ScenarioCOverlay), FALSE>>,
     <<Some(OrderBase), Some(OrderOverlay), FALSE>>,
     <<Some(RichTree), Some(RichTree), TRUE>>}

NoCall ==
    [op |-> "none", entries |-> <<>>, count |-> 0, flag |-> FALSE,
     raised |-> FALSE]

Call(op, entries, count, flag, raised) ==
    [op |-> op, entries |-> entries, count |-> count, flag |-> flag,
     raised |-> raised]

InitDtbIdle ==
    /\ dtbInput = <<>>
    /\ hostLE = TRUE
    /\ dtbState = [pc |-> "idle"]

\* No text file, no decoder selection and no node object in use.
DtsIdle ==
    /\ dtsInput = <<>>
    /\ dtsState = [pc |-> "idle"]

SelIdle ==
    /\ selInput = <<>>
    /\ selState = [pc |-> "idle"]

HeapIdle ==
    /\ heap = <<>>
    /\ heapCall = [op |-> "none"]
    /\ nCalls = 0

Init ==
    /\ \E e \in InitEngines :
        /\ baseTree = e[1]
        /\ overlayTree = e[2]
        /\ aliased = e[3]
    /\ diffCache = <<>>
    /\ diffGenerated = FALSE
    /\ stats = NoStats
    /\ statsCalculated = FALSE
    /\ lastCall = NoCall
    /\ nOps = 0
    /\ InitDtbIdle
    /\ DtsIdle
    /\ SelIdle
    /\ HeapIdle

\* The tree a mutation call is made on, and the two trees after it: a call
\* on an object both pointers designate is seen through both.
TreeOf(side) == IF side = "base" THEN baseTree ELSE overlayTree

Mutate(side, tree) ==
    /\ nOps < MaxOps
    /\ nOps' = nOps + 1
    /\ baseTree' = IF side = "base" \/ aliased THEN Some(tree) ELSE baseTree
    /\ overlayTree' = IF side = "overlay" \/ aliased THEN Some(tree)
                      ELSE overlayTree
    /\ lastCall' = NoCall
    /\ UNCHANGED <<aliased, diffCache, diffGenerated, stats, statsCalculated>>
    /\ UNCHANGED decoderVars

\* tree->getRoot()->...->f(...) for a node of the tree.
OnNode(side, f(_)) ==
    /\ TreeOf(side) # Null
    /\ TreeOf(side)[1].root # Null
    /\ LET root == TreeOf(side)[1].root[1] IN
       \E p \in NodePaths(root) :
          Mutate(side, [root |-> Some(UpdateAt(root, p, f(NodeAt(root, p))))])

AddChild(side, name) ==
    OnNode(side, LAMBDA n : addChild(n, Some(DeviceTreeNode(name))))

AddProperty(side, prop) ==
    OnNode(side, LAMBDA n : addProperty(n, prop))

RemoveChild(side) ==
    /\ TreeOf(side) # Null
    /\ TreeOf(side)[1].root # Null
    /\ LET root == TreeOf(side)[1].root[1] IN
       \E p \in NodePaths(root) :
          \E i \in 1..Len(NodeAt(root, p).children) :
             Mutate(side, [root |->
                Some(UpdateAt(root, p, removeChild(NodeAt(root, p), i)))])

RemoveProperty(side, name) ==
    OnNode(side, LAMBDA n : removeProperty(n, name))

\* DeviceTree::setRoot(nullptr).
SetRoot(side) ==
    /\ TreeOf(side) # Null
    /\ Mutate(side, [root |-> Null])

\* The engine fields after a call that starts with generateDiff().
EngineAfter(g) ==
    /\ diffCache' = g.cache
    /\ diffGenerated' = g.generated

Engine == generateDiff(baseTree, overlayTree, diffCache, diffGenerated)

QueryFrame ==
    UNCHANGED <<baseTree, overlayTree, aliased, nOps>> /\ UNCHANGED decoderVars

GenerateDiff ==
    /\ EngineAfter(Engine)
    /\ lastCall' = Call("generateDiff", Engine.cache, 0, FALSE, Engine.raised)
    /\ UNCHANGED <<stats, statsCalculated>>
    /\ QueryFrame

GetAddedNodes ==
    /\ EngineAfter(Engine)
    /\ lastCall' = Call("getAddedNodes", getAddedNodes(Engine.cache), 0, FALSE,
                        Engine.raised)
    /\ UNCHANGED <<stats, statsCalculated>>
    /\ QueryFrame

GetRemovedNodes ==
    /\ EngineAfter(Engine)
    /\ lastCall' = Call("getRemovedNodes", getRemovedNodes(Engine.cache), 0,
                        FALSE, Engine.raised)
    /\ UNCHANGED <<stats, statsCalculated>>
    /\ QueryFrame

GetModifiedProperties ==
    /\ EngineAfter(Engine)
    /\ lastCall' = Call("getModifiedProperties",
                        getModifiedProperties(Engine.cache), 0, FALSE,
                        Engine.raised)
    /\ UNCHANGED <<stats, statsCalculated>>
    /\ QueryFrame

GetTotalChanges ==
    /\ EngineAfter(Engine)
    /\ lastCall' = Call("getTotalChanges", <<>>, Len(Engine.cache), FALSE,
                        Engine.raised)
    /\ UNCHANGED <<stats, statsCalculated>>
    /\ QueryFrame

GetAddedCount ==
    /\ EngineAfter(Engine)
    /\ lastCall' = Call("getAddedCount", <<>>, Len(getAddedNodes(Engine.cache)),
                        FALSE, Engine.raised)
    /\ UNCHANGED <<stats, statsCalculated>>
    /\ QueryFrame

GetRemovedCount ==
    /\ EngineAfter(Engine)
    /\ lastCall' = Call("getRemovedCount", <<>>,
                        Len(getRemovedNodes(Engine.cache)), FALSE, Engine.raised)
    /\ UNCHANGED <<stats, statsCalculated>>
    /\ QueryFrame

GetModifiedCount ==
    /\ EngineAfter(Engine)
    /\ lastCall' = Call("getModifiedCount", <<>>,
                        Len(getModifiedProperties(Engine.cache)), FALSE,
                        Engine.raised)
    /\ UNCHANGED <<stats, statsCalculated>>
    /\ QueryFrame

IsValid ==
    /\ lastCall' = Call("isValid", <<>>, 0, isValid(baseTree, overlayTree), FALSE)
    /\ UNCHANGED <<diffCache, diffGenerated, stats, statsCalculated>>
    /\ QueryFrame

\* DiffVisualizer::getStats: calculateStats runs once, over generateDiff().
GetStats ==
    /\ IF statsCalculated
       THEN /\ lastCall' = Call("getStats", <<>>, 0, FALSE, FALSE)
            /\ UNCHANGED <<diffCache, diffGenerated, stats, statsCalculated>>
       ELSE /\ EngineAfter(Engine)
            /\ stats' = calculateStats(Engine.cache)
            /\ statsCalculated' = TRUE
            /\ lastCall' = Call("getStats", <<>>, 0, FALSE, Engine.raised)
    /\ QueryFrame

Sides == {"base", "overlay"}

Next ==
    \/ \E side \in Sides, name \in NodeNames : AddChild(side, name)
    \/ \E side \in Sides, name \in PropNames, value \in PropValues :
          AddProperty(side, DeviceTreeProperty(name, value))
    \/ \E side \in Sides : RemoveChild(side)
    \/ \E side \in Sides, name \in PropNames : RemoveProperty(side, name)
    \/ \E side \in Sides : SetRoot(side)
    \/ GenerateDiff
    \/ GetAddedNodes
    \/ GetRemovedNodes
    \/ GetModifiedProperties
    \/ GetTotalChanges
    \/ GetAddedCount
    \/ GetRemovedCount
    \/ GetModifiedCount
    \/ IsValid
    \/ GetStats

Spec == Init /\ [][Next]_vars

----------------------------------------------------------------------------
(* The binary decoder (DTBParser).  A uint32_t is the sequence of its four *)
(* bytes, most significant first, so that the values near 2^32 keep their  *)
(* width.  A size_t that the code derives from a checked offset is an      *)
(* integer.  The memory the decoder reads through the pointer data is the  *)
(* file buffer followed by whatever lies behind it on the heap.            *)

\* Bytes that may lie behind the buffer, and how many of them are readable
\* before the read faults.
MaxSlack == 1

SlackBytes == {0, 97}

HeaderSize == 40

MinVersion == 16

MaxNameOff == 16777216

FDT_BEGIN_NODE == 1

FDT_PROP == 2

FDT_END_NODE == 3

FDT_END == 9

\* 0xd00dfeed and 0xedfe0dd0.
FDT_MAGIC == <<208, 13, 254, 237>>

FDT_MAGIC_SWAPPED == <<237, 254, 13, 208>>

bswap32(w) == <<w[4], w[3], w[2], w[1]>>

\* The uint32_t of an integer in 0 .. 2^31 - 1.
U32(n) ==
    <<(n \div 16777216) % 256, (n \div 65536) % 256, (n \div 256) % 256,
      n % 256>>

\* The integer of a uint32_t below 2^31.
ToInt(w) == ((w[1] * 256 + w[2]) * 256 + w[3]) * 256 + w[4]

\* a < b on uint32_t.
Lt32(a, b) ==
    \E i \in 1..4 : a[i] < b[i] /\ \A j \in 1..(i - 1) : a[j] = b[j]

RECURSIVE Carry(_, _, _)
\* The carry into byte i - 1 of a + b.
Carry(a, b, i) ==
    IF i > 4 THEN 0 ELSE (a[i] + b[i] + Carry(a, b, i + 1)) \div 256

\* a + b on uint32_t: the sum modulo 2^32.
Add32(a, b) == [i \in 1..4 |-> (a[i] + b[i] + Carry(a, b, i + 1)) % 256]

\* The characters of the names and texts the model's inputs hold; any other
\* byte is written as an escape.
CharOf ==
    (47 :> "/") @@ (97 :> "a") @@ (98 :> "b") @@ (99 :> "c") @@ (120 :> "x")

RECURSIVE StringOf(_)
\* std::string(const char*, n): the text of a byte sequence.
StringOf(codes) ==
    IF codes = <<>> THEN ""
    ELSE (IF Head(codes) \in DOMAIN CharOf THEN CharOf[Head(codes)]
          ELSE "\\x" \o Hex2(Head(codes)))
         \o StringOf(Tail(codes))

\* The memory behind the pointer data: the buffer, the readable bytes
\* behind it, and whether the target traps a misaligned 32-bit load.
Memory(buffer, beyond, strict) ==
    [bytes |-> buffer \o beyond, strict |-> strict]

\* header[i] and structData[0]: the four bytes at a byte offset, read as a
\* uint32_t in the byte order of the host.
HostWord(bytes, offset) ==
    LET b == SubSeq(bytes, offset + 1, offset + 4) IN
    IF hostLE THEN bswap32(b) ELSE b

\* A read of n bytes at offset through data stays in readable memory.
Readable(data, offset, n) == offset + n <= Len(data.bytes)

\* A 32-bit load at offset completes: the buffer is aligned, so the load
\* is aligned iff the offset is.
Loadable(data, offset) ==
    /\ Readable(data, offset, 4)
    /\ ~(data.strict /\ offset % 4 # 0)

\* p[0] used as read, whatever the byte order of the file.
LoadWordAsRead(data, offset, isLittleEndian) == HostWord(data.bytes, offset)

\* isLittleEndian ? __builtin_bswap32(p[0]) : p[0]
LoadWord(data, offset, isLittleEndian) ==
    IF isLittleEndian THEN bswap32(HostWord(data.bytes, offset))
    ELSE HostWord(data.bytes, offset)

RECURSIVE strlen(_, _)
\* strlen of the C string at offset, or -1 when no NUL is found before the
\* end of the readable memory.
strlen(data, offset) ==
    IF ~Readable(data, offset, 1) THEN -1
    ELSE IF data.bytes[offset + 1] = 0 THEN 0
    ELSE LET rest == strlen(data, offset + 1) IN
         IF rest < 0 THEN -1 ELSE rest + 1

\* What a decoding step ends with other than its value.
Throw(what) == [kind |-> "throw", what |-> what]

Fault == [kind |-> "fault", what |-> "invalid read"]

\* The value of a property of len value bytes (the bytes behind the three
\* words of a FDT_PROP record).
PropertyValueOf(bytes) ==
    LET len == Len(bytes) IN
    IF len = 0 THEN StringValue("")
    ELSE IF bytes[len] = 0
    THEN LET strValue == SubSeq(bytes, 1, len - 1) IN
         IF \A i \in 1..(len - 1) : strValue[i] >= 32 /\ strValue[i] <= 126
         THEN StringValue(StringOf(strValue))
         ELSE BinaryValue(bytes)
    ELSE BinaryValue(bytes)

\* DTBParser::parseDTBProperty: the property of the FDT_PROP record at
\* offset and the offset behind it.
parseDTBProperty(data, offset, stringsOffset, isLittleEndian) ==
    IF ~Loadable(data, offset + 4) \/ ~Loadable(data, offset + 8) THEN Fault
    ELSE
    LET len == LoadWord(data, offset + 4, isLittleEndian)
        nameoff == LoadWord(data, offset + 8, isLittleEndian)
    IN
    IF ~Lt32(nameoff, U32(MaxNameOff))
    THEN Throw("Invalid property name offset")
    ELSE
    LET propName == stringsOffset + ToInt(nameoff)
        nameLen == strlen(data, propName)
    IN
    IF nameLen < 0 THEN Fault
    ELSE IF nameLen = 0 THEN Throw("Empty property name")
    ELSE IF len[1] >= 128 \/ ~Readable(data, offset + 12, ToInt(len))
    THEN Fault
    ELSE
    LET n == ToInt(len)
        value == PropertyValueOf(SubSeq(data.bytes, offset + 13, offset + 12 + n))
        name == StringOf(SubSeq(data.bytes, propName + 1, propName + nameLen))
    IN [kind |-> "prop",
        prop |-> DeviceTreeProperty(name, value),
        nextOffset |-> offset + 12 + ((n + 3) \div 4) * 4]

RECURSIVE parseDTBNode(_, _, _, _, _)
RECURSIVE WalkNode(_, _, _, _, _, _)

\* The while loop of DTBParser::parseDTBNode: the node and the offset the
\* walk stops at.
WalkNode(data, currentOffset, nextOffset, node, stringsOffset, isLittleEndian) ==
    IF ~(currentOffset < nextOffset)
    THEN [kind |-> "returned", node |-> Some(node),
          nextOffset |-> currentOffset]
    ELSE IF ~Loadable(data, currentOffset) THEN Fault
    ELSE
    LET currentTokenValue == LoadWord(data, currentOffset, isLittleEndian) IN
    IF currentTokenValue = U32(FDT_PROP)
    THEN LET prop == parseDTBProperty(data, currentOffset, stringsOffset,
                                      isLittleEndian) IN
         IF prop.kind # "prop" THEN prop
         ELSE WalkNode(data, prop.nextOffset, nextOffset,
                       addProperty(node, prop.prop), stringsOffset,
                       isLittleEndian)
    ELSE IF currentTokenValue = U32(FDT_BEGIN_NODE)
    THEN LET childNode == parseDTBNode(data, currentOffset, currentOffset,
                                       stringsOffset, isLittleEndian) IN
         IF childNode.kind # "returned" THEN childNode
         ELSE WalkNode(data, childNode.nextOffset, nextOffset,
                       addChild(node, childNode.node), stringsOffset,
                       isLittleEndian)
    ELSE IF currentTokenValue = U32(FDT_END_NODE)
    THEN [kind |-> "returned", node |-> Some(node),
          nextOffset |-> currentOffset + 4]
    ELSE IF currentTokenValue = U32(FDT_END)
    THEN [kind |-> "returned", node |-> Some(node),
          nextOffset |-> currentOffset]
    ELSE WalkNode(data, currentOffset + 4, nextOffset, node, stringsOffset,
                  isLittleEndian)

\* DTBParser::parseDTBNode: nextOffset is the value the reference parameter
\* holds at the call; the result carries the value it holds at the return.
parseDTBNode(data, offset, nextOffset, stringsOffset, isLittleEndian) ==
    IF ~Loadable(data, offset) THEN Fault
    ELSE IF LoadWord(data, offset, isLittleEndian) # U32(FDT_BEGIN_NODE)
    THEN [kind |-> "returned", node |-> Null, nextOffset |-> nextOffset]
    ELSE
    LET len == strlen(data, offset + 4) IN
    IF len < 0 THEN Fault
    ELSE
    LET nodeName == StringOf(SubSeq(data.bytes, offset + 5, offset + 4 + len))
        name == IF nodeName = "" \/ nodeName = "/" THEN "/" ELSE nodeName
        node == DeviceTreeNode(name)
        nameLen == len + 1
        nameWords == (nameLen + 3) \div 4
        currentOffset == offset + 4 + nameWords * 4
    IN WalkNode(data, currentOffset, nextOffset, node, stringsOffset,
                isLittleEndian)

\* The ten words of the header as the host reads them (lines 67-77).
HeaderFields ==
    <<"magic", "totalsize", "off_dt_struct", "off_dt_strings",
      "off_mem_rsvmap", "version", "last_comp_version", "boot_cpuid_phys",
      "size_dt_strings", "size_dt_struct">>

FieldIndex(f) == CHOOSE i \in 1..Len(HeaderFields) : HeaderFields[i] = f

ReadHeader(buffer) ==
    [f \in {HeaderFields[i] : i \in 1..Len(HeaderFields)} |->
        HostWord(buffer, 4 * (FieldIndex(f) - 1))]

\* The header with the size of the structure block left as read.
NormalizeAllButSizeStruct(header, isLittleEndian) ==
    [f \in DOMAIN header |->
        IF isLittleEndian /\ f \notin {"magic", "size_dt_struct"}
        THEN bswap32(header[f]) ELSE header[f]]

\* Lines 80-94: the nine fields behind the magic are converted when the
\* magic is the byte-reversed one.
NormalizeHeader(header, isLittleEndian) ==
    [f \in DOMAIN header |->
        IF isLittleEndian /\ f # "magic" THEN bswap32(header[f])
        ELSE header[f]]

\* totalsize > fileSize in place of totalsize != fileSize.
SizeTooLarge(totalsize, fileSize) == Lt32(U32(fileSize), totalsize)

\* Line 101: totalsize != fileSize.
SizeMismatch(totalsize, fileSize) == totalsize # U32(fileSize)

\* Lines 101-123: the message of the exception the header raises, or "".
HeaderError(h, fileSize) ==
    IF SizeMismatch(h.totalsize, fileSize) THEN "File size mismatch"
    ELSE IF \/ ~Lt32(h.off_dt_struct, U32(fileSize))
            \/ ~Lt32(h.off_dt_strings, U32(fileSize))
            \/ ~Lt32(h.off_mem_rsvmap, U32(fileSize))
    THEN "Invalid offset in DTB header"
    ELSE IF Lt32(U32(fileSize), Add32(h.off_dt_struct, h.size_dt_struct))
    THEN "Structure block extends beyond file"
    ELSE IF Lt32(U32(fileSize), Add32(h.off_dt_strings, h.size_dt_strings))
    THEN "Strings block extends beyond file"
    ELSE IF Lt32(h.version, U32(MinVersion)) THEN "DTB version too old"
    ELSE ""

\* What parseDTBFile ends with: kind is "returned" (with the bool value),
\* "throw" or "fault"; header is the header the checks were made on.
FileResult(kind, value, what, header, root) ==
    [kind |-> kind, value |-> value, what |-> what, header |-> header,
     root |-> root]

\* DTBParser::parseDTBFile on the file (null when it cannot be opened);
\* beyond and strict make up the memory behind the buffer.
parseDTBFile(file, beyond, strict) ==
    IF file = Null
    THEN FileResult("throw", FALSE, "Cannot open file", Null, Null)
    ELSE
    LET buffer == file[1]
        fileSize == Len(buffer)
    IN
    IF fileSize < HeaderSize
    THEN FileResult("throw", FALSE, "File too small to be a valid DTB", Null,
                    Null)
    ELSE
    LET header == ReadHeader(buffer) IN
    IF header.magic # FDT_MAGIC /\ header.magic # FDT_MAGIC_SWAPPED
    THEN FileResult("throw", FALSE, "Invalid DTB magic number", Null, Null)
    ELSE
    LET isLittleEndian == header.magic = FDT_MAGIC_SWAPPED
        h == NormalizeHeader(header, isLittleEndian)
        what == HeaderError(h, fileSize)
    IN
    IF what # "" THEN FileResult("throw", FALSE, what, Some(h), Null)
    ELSE
    LET structOffset == ToInt(h.off_dt_struct)
        nextOffset == structOffset
        rootNode == parseDTBNode(Memory(buffer, beyond, strict), structOffset,
                                 nextOffset, ToInt(h.off_dt_strings),
                                 isLittleEndian)
    IN
    IF rootNode.kind # "returned"
    THEN FileResult(rootNode.kind, FALSE, rootNode.what, Some(h), Null)
    ELSE IF rootNode.node # Null
    THEN FileResult("returned", TRUE, "", Some(h), rootNode.node)
    ELSE FileResult("returned", FALSE, "", Some(h), Null)

\* DTBParser::parse: the tree, or null when parseDTBFile returns false or
\* throws.  A fault ends the process: nothing is returned.
parse(file, beyond, strict) ==
    LET r == parseDTBFile(file, beyond, strict) IN
    [pc |-> IF r.kind = "fault" THEN "crashed" ELSE "returned",
     result |-> IF r.kind = "returned" /\ r.value
                THEN Some([DeviceTree EXCEPT !.root = r.root])
                ELSE Null,
     what |-> r.what,
     header |-> r.header]

----------------------------------------------------------------------------
(* The files the decoder is run on.                                        *)

\* A word as a file of the given byte order holds it.
FileWord(order, w) == IF order = "big" THEN w ELSE bswap32(w)

\* A file: the ten header words in the byte order of the file, then the
\* bytes behind the header.
Blob(order, words, body) ==
    Concat([i \in 1..Len(words) |-> FileWord(order, words[i])]) \o body

Orders == {"big", "little"}

\* The magic, and a word that is neither the magic nor its reversal.
Magics == {FDT_MAGIC, <<208, 13, 254, 238>>}

\* What follows the header: nothing; a lone FDT_BEGIN_NODE or FDT_END; a
\* root named "", "a" or by four bytes without a NUL; a closed root.
Bodies(order) ==
    {<<>>,
     FileWord(order, U32(FDT_BEGIN_NODE)),
     FileWord(order, U32(FDT_END)),
     FileWord(order, U32(FDT_BEGIN_NODE)) \o <<0, 0, 0, 0>>,
     FileWord(order, U32(FDT_BEGIN_NODE)) \o <<97, 0, 0, 0>>,
     FileWord(order, U32(FDT_BEGIN_NODE)) \o <<97, 97, 97, 97>>,
     FileWord(order, U32(FDT_BEGIN_NODE)) \o <<0, 0, 0, 0>>
        \o FileWord(order, U32(FDT_END_NODE))
        \o FileWord(order, U32(FDT_END))}

TotalSizes(fileSize) ==
    {U32(fileSize), U32(fileSize + 1), U32(fileSize - 1)}

StructOffsets(fileSize) == {U32(HeaderSize), U32(HeaderSize + 2), U32(fileSize)}

StructSizes == {U32(8), U32(64), <<255, 255, 255, 240>>}

StringsOffsets(fileSize) == {U32(HeaderSize), U32(fileSize)}

StringsSizes == {U32(0), <<255, 255, 255, 255>>}

RsvmapOffsets(fileSize) == {U32(HeaderSize), U32(fileSize)}

Versions == {U32(15), U32(16), U32(17), U32(18)}

\* The lengths of the files cut off inside the header.
ShortLengths == {0, 4, 39}

\* A header that passes every check for a file of fileSize bytes.
GoodHeader(fileSize) ==
    <<FDT_MAGIC, U32(fileSize), U32(HeaderSize), U32(HeaderSize),
      U32(HeaderSize), U32(17), U32(16), U32(0), U32(0), U32(8)>>

\* A well-formed file of 86 bytes: the header, an empty memory reservation
\* map at 40, at 56 the structure block of a root named "" that holds the
\* one property x with len = 0 (FDT_BEGIN_NODE "" FDT_PROP 0 0 FDT_END_NODE
\* FDT_END), and at 84 the strings block "x".
WellFormedBlob(order) ==
    Blob(order,
         <<FDT_MAGIC, U32(86), U32(56), U32(84), U32(HeaderSize), U32(17),
           U32(16), U32(0), U32(2), U32(28)>>,
         [i \in 1..16 |-> 0]
         \o FileWord(order, U32(FDT_BEGIN_NODE)) \o <<0, 0, 0, 0>>
         \o FileWord(order, U32(FDT_PROP))
         \o FileWord(order, U32(0)) \o FileWord(order, U32(0))
         \o FileWord(order, U32(FDT_END_NODE))
         \o FileWord(order, U32(FDT_END))
         \o <<120, 0>>)

\* A well-formed file of 98 bytes with a nested node: the structure block
\* at 56 is FDT_BEGIN_NODE "" FDT_BEGIN_NODE "a" FDT_PROP 0 0 FDT_END_NODE
\* FDT_END_NODE FDT_END, and the strings block at 96 is "x".
NestedBlob(order) ==
    Blob(order,
         <<FDT_MAGIC, U32(98), U32(56), U32(96), U32(HeaderSize), U32(17),
           U32(16), U32(0), U32(2), U32(40)>>,
         [i \in 1..16 |-> 0]
         \o FileWord(order, U32(FDT_BEGIN_NODE)) \o <<0, 0, 0, 0>>
         \o FileWord(order, U32(FDT_BEGIN_NODE)) \o <<97, 0, 0, 0>>
         \o FileWord(order, U32(FDT_PROP))
         \o FileWord(order, U32(0)) \o FileWord(order, U32(0))
         \o FileWord(order, U32(FDT_END_NODE))
         \o FileWord(order, U32(FDT_END_NODE))
         \o FileWord(order, U32(FDT_END))
         \o <<120, 0>>)

DiffIdle ==
    /\ baseTree = Null
    /\ overlayTree = Null
    /\ aliased = FALSE
    /\ diffCache = <<>>
    /\ diffGenerated = FALSE
    /\ stats = NoStats
    /\ statsCalculated = FALSE
    /\ lastCall = NoCall
    /\ nOps = 0

InitDTB ==
    /\ DiffIdle
    /\ DtsIdle
    /\ SelIdle
    /\ HeapIdle
    /\ hostLE \in BOOLEAN
    /\ dtbState = [pc |-> "idle"]
    /\ \/ dtbInput = Null
       \/ \E order \in Orders, n \in ShortLengths :
            dtbInput = Some(SubSeq(Blob(order, GoodHeader(48), <<>>), 1, n))
       \/ \E order \in Orders : dtbInput = Some(WellFormedBlob(order))
       \/ \E order \in Orders : dtbInput = Some(NestedBlob(order))
       \/ \E order \in Orders, magic \in Magics :
          \E body \in Bodies(order) :
          LET fileSize == HeaderSize + Len(body) IN
          \E totalsize \in TotalSizes(fileSize),
             off_dt_struct \in StructOffsets(fileSize),
             off_dt_strings \in StringsOffsets(fileSize),
             off_mem_rsvmap \in RsvmapOffsets(fileSize),
             version \in Versions,
             size_dt_strings \in StringsSizes,
             size_dt_struct \in StructSizes :
            dtbInput = Some(Blob(order,
                <<magic, totalsize, off_dt_struct, off_dt_strings,
                  off_mem_rsvmap, version, U32(16), U32(0), size_dt_strings,
                  size_dt_struct>>, body))

\* What may lie behind the buffer: up to MaxSlack readable bytes.
Slack == UNION {[1..n -> SlackBytes] : n \in 0..MaxSlack}

\* A call of DTBParser::parse on the file.
ParseDTB ==
    /\ dtbState.pc = "idle"
    /\ \E beyond \in Slack, strict \in BOOLEAN :
        dtbState' = parse(dtbInput, beyond, strict)
    /\ UNCHANGED <<dtbInput, hostLE>>
    /\ UNCHANGED <<diffVars, dtsVars, selVars, heapVars>>

NextDTB == ParseDTB

SpecDTB == InitDTB /\ [][NextDTB]_vars

----------------------------------------------------------------------------
(* The text decoder (DTSParser).  The text of a line is the sequence of    *)
(* its characters; positions count from 0 as in std::string.               *)

\* std::string::npos.
npos == -1

Blanks == {" ", "\t"}

RECURSIVE Str(_)
\* The std::string of a sequence of characters.
Str(chars) == IF chars = <<>> THEN "" ELSE Head(chars) \o Str(Tail(chars))

\* s.substr(pos): the characters from pos on.
substrFrom(s, pos) == SubSeq(s, pos + 1, Len(s))

\* s.substr(pos, n), n counted as a size_t: a negative n is a huge one.
substr(s, pos, n) ==
    IF n < 0 \/ pos + n > Len(s) THEN SubSeq(s, pos + 1, Len(s))
    ELSE SubSeq(s, pos + 1, pos + n)

\* pat occurs in s at position pos.
OccursAt(s, pat, pos) ==
    /\ pos + Len(pat) <= Len(s)
    /\ \A k \in 1..Len(pat) : s[pos + k] = pat[k]

\* s.find(pat)
find(s, pat) ==
    IF \E pos \in 0..Len(s) : OccursAt(s, pat, pos)
    THEN CHOOSE pos \in 0..Len(s) :
            /\ OccursAt(s, pat, pos)
            /\ \A q \in 0..(pos - 1) : ~OccursAt(s, pat, q)
    ELSE npos

\* s.find_first_not_of(" \t")
find_first_not_of(s) ==
    IF \E i \in 1..Len(s) : s[i] \notin Blanks
    THEN (CHOOSE i \in 1..Len(s) :
            s[i] \notin Blanks /\ \A j \in 1..(i - 1) : s[j] \in Blanks) - 1
    ELSE npos

\* s.find_last_not_of(" \t")
find_last_not_of(s) ==
    IF \E i \in 1..Len(s) : s[i] \notin Blanks
    THEN (CHOOSE i \in 1..Len(s) :
            s[i] \notin Blanks /\ \A j \in (i + 1)..Len(s) : s[j] \in Blanks) - 1
    ELSE npos

\* s.erase(0, s.find_first_not_of(" \t")): erase(0, npos) erases all.
TrimLeft(s) ==
    LET first == find_first_not_of(s) IN
    IF first = npos THEN <<>> ELSE substrFrom(s, first)

\* s.erase(s.find_last_not_of(" \t") + 1): npos + 1 is 0.
TrimRight(s) ==
    LET last == find_last_not_of(s) IN
    IF last = npos THEN <<>> ELSE SubSeq(s, 1, last + 1)

\* The two erase calls that trim a name or a value.
Trim(s) == TrimRight(TrimLeft(s))

\* s[i] of a std::string: s[s.size()] is the NUL character.
CharAt(s, i) == IF i < Len(s) THEN s[i + 1] ELSE "\\0"

\* trimmedLine.empty() || starts with "//" || starts with '*'
IsBlankOrComment(trimmedLine) ==
    \/ trimmedLine = <<>>
    \/ CharAt(trimmedLine, 0) = "/" /\ CharAt(trimmedLine, 1) = "/"
    \/ CharAt(trimmedLine, 0) = "*"

RECURSIVE SplitOn(_, _)
\* The tokens std::getline(stream, token, delim) yields on the text s.
SplitOn(s, delim) ==
    IF s = <<>> THEN <<>>
    ELSE LET pos == find(s, <<delim>>) IN
         IF pos = npos THEN <<s>>
         ELSE <<SubSeq(s, 1, pos)>> \o SplitOn(substrFrom(s, pos + 1), delim)

HexValue ==
    [c \in {"0", "1", "2", "3", "4", "5", "6", "7", "8", "9", "a", "b", "c",
            "d", "e", "f", "A", "B", "C", "D", "E", "F"} |->
        CASE c = "0" -> 0 [] c = "1" -> 1 [] c = "2" -> 2 [] c = "3" -> 3
          [] c = "4" -> 4 [] c = "5" -> 5 [] c = "6" -> 6 [] c = "7" -> 7
          [] c = "8" -> 8 [] c = "9" -> 9 [] c \in {"a", "A"} -> 10
          [] c \in {"b", "B"} -> 11 [] c \in {"c", "C"} -> 12
          [] c \in {"d", "D"} -> 13 [] c \in {"e", "E"} -> 14
          [] OTHER -> 15]

IsHexDigit(c) == c \in DOMAIN HexValue

RECURSIVE HexRun(_, _)
\* The value of the longest run of hexadecimal digits s starts with, behind
\* the value acc of the digits already read; -1 when there is no digit.
HexRun(s, acc) ==
    IF s = <<>> \/ ~IsHexDigit(Head(s)) THEN acc
    ELSE HexRun(Tail(s), (IF acc < 0 THEN 0 ELSE acc) * 16 + HexValue[Head(s)])

\* The digits std::stoul reads in a text without leading blanks: a 0x
\* that a digit follows is skipped.
HexAfterPrefix(t) ==
    IF Len(t) >= 3 /\ t[1] = "0" /\ t[2] \in {"x", "X"} /\ IsHexDigit(t[3])
    THEN HexRun(substrFrom(t, 2), -1)
    ELSE HexRun(t, -1)

\* std::stoul(s, nullptr, 16) for a text without a sign and of at most
\* seven digits: blanks are skipped and the digits up to the first other
\* character are read; -1 stands for the std::invalid_argument thrown when
\* there is no digit.
stoul(s) == HexAfterPrefix(TrimLeft(s))

RECURSIVE ContinueValue(_, _, _)
\* The loop of parseDTSValue that appends the lines behind a value holding
\* a backslash, up to the part before ";" of the first line that has one.
ContinueValue(lines, next, fullValue) ==
    IF next >= Len(lines) THEN [value |-> fullValue, next |-> next]
    ELSE IF find(lines[next + 1], <<";">>) # npos
    THEN [value |-> fullValue \o substr(lines[next + 1], 0,
                                        find(lines[next + 1], <<";">>)),
          next |-> next + 1]
    ELSE ContinueValue(lines, next + 1, fullValue \o lines[next + 1])

\* The removal of the semicolon that ends the trimmed value.
StripSemicolon(value) ==
    IF value # <<>> /\ value[Len(value)] = ";"
    THEN substr(value, 0, Len(value) - 1)
    ELSE value

\* The end of parseDTSValue: a value with a backslash goes on over the
\* next lines.
MultiLineValue(lines, next, value) ==
    IF find(value, <<"\\">>) # npos
    THEN ContinueValue(lines, next, value)
    ELSE [value |-> value, next |-> next]

\* DTSParser::parseDTSValue: the value text of the property line, and the
\* number of lines read from the stream when it returns.
parseDTSValue(lines, next, line) ==
    MultiLineValue(lines, next,
        StripSemicolon(Trim(substrFrom(line, find(line, <<"=">>) + 1))))

\* The token without the 0x it may start with.
StripPrefix(token) ==
    IF substr(token, 0, 2) = <<"0", "x">> THEN substrFrom(token, 2) ELSE token

RECURSIVE ParseTokensLenient(_, _)
\* A token loop that leaves out the tokens that are no number.
ParseTokensLenient(tokens, done) ==
    IF tokens = <<>> THEN [ok |-> TRUE, values |-> done, token |-> <<>>]
    ELSE IF Head(tokens) = <<>> \/ stoul(StripPrefix(Head(tokens))) < 0
    THEN ParseTokensLenient(Tail(tokens), done)
    ELSE ParseTokensLenient(Tail(tokens),
                            Append(done, stoul(StripPrefix(Head(tokens)))))

RECURSIVE ParseTokens(_, _)
\* The loops of parseDTSProperty over the tokens of a <...> or [...] value:
\* the numbers std::stoul reads, or the token it throws on.
ParseTokens(tokens, done) ==
    IF tokens = <<>> THEN [ok |-> TRUE, values |-> done, token |-> <<>>]
    ELSE IF Head(tokens) = <<>> THEN ParseTokens(Tail(tokens), done)
    ELSE IF stoul(StripPrefix(Head(tokens))) < 0
    THEN [ok |-> FALSE, values |-> done, token |-> StripPrefix(Head(tokens))]
    ELSE ParseTokens(Tail(tokens),
                     Append(done, stoul(StripPrefix(Head(tokens)))))

\* The conversion of the numbers read to the uint8_t pushed on the vector.
ToBytes(values) == [i \in 1..Len(values) |-> values[i] % 256]

\* The property read, or the exception thrown (its message as the fixed
\* text and the token appended to it), with the number of lines read from
\* the stream by then.
PropertyRead(name, value, next) ==
    [kind |-> "prop", prop |-> DeviceTreeProperty(name, value),
     what |-> <<>>, next |-> next]

PropertyThrow(what, next) ==
    [kind |-> "throw", prop |-> Null, what |-> what, next |-> next]

\* The branch of parseDTSProperty for a <...> value, its tokens parsed.
CellsProperty(propName, cells, next) ==
    IF cells.ok THEN PropertyRead(propName, CellsValue(cells.values), next)
    ELSE PropertyThrow(<<"Invalid cell value: ", Str(cells.token)>>, next)

\* The branch of parseDTSProperty for a [...] value, its tokens parsed.
BinaryProperty(propName, binary, next) ==
    IF binary.ok
    THEN PropertyRead(propName, BinaryValue(ToBytes(binary.values)), next)
    ELSE PropertyThrow(<<"Invalid binary value: ", Str(binary.token)>>, next)

\* The text between the first and the last character of the value.
Inner(value) == substr(value, 1, Len(value) - 2)

\* The part of parseDTSProperty that determines the type of the value.
TypedProperty(propName, value, next) ==
    IF value = <<>> THEN PropertyRead(propName, StringValue(""), next)
    ELSE IF value[1] = "\"" /\ value[Len(value)] = "\""
    THEN PropertyRead(propName, StringValue(Str(Inner(value))), next)
    ELSE IF value[1] = "<" /\ value[Len(value)] = ">"
    THEN CellsProperty(propName,
                       ParseTokens(SplitOn(Inner(value), " "), <<>>), next)
    ELSE IF value[1] = "[" /\ value[Len(value)] = "]"
    THEN BinaryProperty(propName,
                        ParseTokens(SplitOn(Inner(value), " "), <<>>), next)
    ELSE PropertyRead(propName, StringValue(Str(value)), next)

\* The part of parseDTSProperty behind the extraction of the name.
NamedProperty(propName, read) ==
    TypedProperty(Str(propName), read.value, read.next)

\* DTSParser::parseDTSProperty on the line read last.
parseDTSProperty(lines, next, line) ==
    IF find(line, <<"=">>) = npos
    THEN PropertyThrow(<<"Invalid property syntax: missing '='", "">>, next)
    ELSE IF Trim(substr(line, 0, find(line, <<"=">>))) = <<>>
    THEN PropertyThrow(<<"Empty property name", "">>, next)
    ELSE NamedProperty(Trim(substr(line, 0, find(line, <<"=">>))),
                       parseDTSValue(lines, next, line))

\* The node name of a line that opens a node: the trimmed text before "{".
NodeNameOf(line) == Trim(substr(line, 0, find(line, <<"{">>)))

\* What the decoder did with line number line (counted from 1) of the
\* file: the branch of the inner loop taken, the number of lines read from
\* the stream by the end of the step, and the text of the warning written.
Step(line, next, branch, what) ==
    [line |-> line, next |-> next, branch |-> branch, what |-> what]

RECURSIVE NodeLoop(_, _, _, _, _)

\* The property branch of the inner loop (lines 339-347): the property is
\* added to the node on top of the stack, or the exception is caught and a
\* warning written.
PropertyStep(lines, next, node, nodeStack, log, prop) ==
    IF prop.kind = "prop"
    THEN NodeLoop(lines, prop.next,
                  UpdateAt(node, nodeStack[Len(nodeStack)],
                           addProperty(NodeAt(node, nodeStack[Len(nodeStack)]),
                                       prop.prop)),
                  nodeStack,
                  Append(log, Step(next + 1, prop.next, "property", <<>>)))
    ELSE NodeLoop(lines, prop.next, node, nodeStack,
                  Append(log, Step(next + 1, prop.next, "warning", prop.what)))

\* The child branch of the inner loop (lines 349-364): the child is added
\* to the node at path back and pushed on the stack.
ChildStep(lines, next, node, nodeStack, log, back, childNode) ==
    NodeLoop(lines, next + 1,
             UpdateAt(node, back, addChild(NodeAt(node, back), Some(childNode))),
             Append(nodeStack,
                    Append(back, Len(NodeAt(node, back).children) + 1)),
             Append(log, Step(next + 1, next + 1, "child", <<>>)))

\* One round of the inner loop on the line read.
LineStep(lines, next, node, nodeStack, log, line) ==
    IF find(TrimLeft(line), <<"}", ";">>) # npos
    THEN IF Len(nodeStack) > 1
         THEN NodeLoop(lines, next + 1, node,
                       SubSeq(nodeStack, 1, Len(nodeStack) - 1),
                       Append(log, Step(next + 1, next + 1, "close", <<>>)))
         ELSE [node |-> Some(node),
               log |-> Append(log, Step(next + 1, next + 1, "close", <<>>)),
               next |-> next + 1]
    ELSE IF IsBlankOrComment(TrimLeft(line))
    THEN NodeLoop(lines, next + 1, node, nodeStack,
                  Append(log, Step(next + 1, next + 1, "skip", <<>>)))
    ELSE IF find(line, <<"=">>) # npos
    THEN PropertyStep(lines, next, node, nodeStack, log,
                      parseDTSProperty(lines, next + 1, line))
    ELSE IF find(line, <<"{">>) # npos
    THEN ChildStep(lines, next, node, nodeStack, log,
                   nodeStack[Len(nodeStack)],
                   DeviceTreeNode(Str(NodeNameOf(line))))
    ELSE NodeLoop(lines, next + 1, node, nodeStack,
                  Append(log, Step(next + 1, next + 1, "ignored", <<>>)))

\* The inner loop of parseDTSNode (lines 319-370): node is the root built
\* so far, nodeStack holds the index paths of the open nodes below it, log
\* the steps taken.
NodeLoop(lines, next, node, nodeStack, log) ==
    IF next >= Len(lines)
    THEN [node |-> Some(node), log |-> log, next |-> next]
    ELSE LineStep(lines, next, node, nodeStack, log, lines[next + 1])

\* The name of the root: "/" for an empty name.
RootName(nodeName) ==
    IF nodeName = <<>> \/ nodeName = <<"/">> THEN "/" ELSE Str(nodeName)

RECURSIVE parseDTSNode(_, _)
\* DTSParser::parseDTSNode: the outer loop looks for the line that opens
\* the first node.
parseDTSNode(lines, next) ==
    IF next >= Len(lines)
    THEN [node |-> Null, log |-> <<>>, next |-> next]
    ELSE IF IsBlankOrComment(TrimLeft(lines[next + 1]))
    THEN parseDTSNode(lines, next + 1)
    ELSE IF find(lines[next + 1],
                 <<"/", "d", "t", "s", "-", "v", "1", "/", ";">>) # npos
    THEN parseDTSNode(lines, next + 1)
    ELSE IF find(lines[next + 1], <<"{">>) # npos
    THEN NodeLoop(lines, next + 1,
                  DeviceTreeNode(RootName(NodeNameOf(lines[next + 1]))),
                  <<<<>>>>, <<>>)
    ELSE parseDTSNode(lines, next + 1)

\* The end of parseDTSFile and of parse: the tree with the root node, or
\* null when there is none.
TreeOfRoot(rootNode) ==
    [pc |-> "returned",
     result |-> IF rootNode.node # Null
                THEN Some([DeviceTree EXCEPT !.root = rootNode.node])
                ELSE Null,
     log |-> rootNode.log,
     what |-> ""]

\* DTSParser::parseDTSFile and DTSParser::parse on the file (null when it
\* cannot be opened): the tree or null, and the steps of the inner loop.
DTSParser_parse(file) ==
    IF file = Null
    THEN [pc |-> "returned", result |-> Null, log |-> <<>>,
          what |-> "Cannot open file"]
    ELSE TreeOfRoot(parseDTSNode(file[1], 0))

\* The longest file made of the lines of DtsLines.
MaxLines == 4

\* The lines the files are made of: one that opens the root, one that
\* opens a node named c, one that closes a node, a string property, a cell
\* property and a byte property with a token that is no number, a line
\* without "=", and a cell property that continues on the next line.
DtsLines ==
    {
    \* / {
     <<"/", " ", "{">>,
    \* c {
     <<"c", " ", "{">>,
    \* };
     <<"}", ";">>,
    \* a = "1";
     <<"a", " ", "=", " ", "\"", "1", "\"", ";">>,
    \* a = <0x1 zz>;
     <<"a", " ", "=", " ", "<", "0", "x", "1", " ", "z", "z", ">", ";">>,
    \* b = [zz];
     <<"b", " ", "=", " ", "[", "z", "z", "]", ";">>,
    \* ranges;
     <<"r", "a", "n", "g", "e", "s", ";">>,
    \* a = <2 \
     <<"a", " ", "=", " ", "<", "2", " ", "\\">>}

\* The sample of the specification on one line.
SampleOneLine ==
    <<<<"/", " ", "{", " ", "c", "o", "m", "p", "a", "t", "i", "b",
        "l", "e", " ", "=", " ", "\"", "t", "e", "s", "t", ",", "d",
        "e", "v", "i", "c", "e", "\"", ";", " ", "m", "o", "d", "e",
        "l", " ", "=", " ", "\"", "T", "e", "s", "t", " ", "D", "e",
        "v", "i", "c", "e", "\"", ";", " ", "}", ";">>>>

\* The same sample, one statement a line, behind the version header.
SampleLines ==
    <<<<"/", "d", "t", "s", "-", "v", "1", "/", ";">>,
      <<>>,
      <<"/", " ", "{">>,
      <<"\t", "c", "o", "m", "p", "a", "t", "i", "b", "l", "e", " ",
        "=", " ", "\"", "t", "e", "s", "t", ",", "d", "e", "v", "i",
        "c", "e", "\"", ";">>,
      <<"\t", "m", "o", "d", "e", "l", " ", "=", " ", "\"", "T", "e",
        "s", "t", " ", "D", "e", "v", "i", "c", "e", "\"", ";">>,
      <<"}", ";">>>>

\* A file with a cell property, a byte property and a comment.
ValuesFile ==
    <<<<"/", " ", "{">>,
      <<"x", " ", "=", " ", "<", "0", "x", "1", " ", "2", ">", ";">>,
      <<"b", " ", "=", " ", "[", "0", "x", "1", " ", "f", "f", "]", ";">>,
      <<"/", "/", " ", "n", "o", "t", "e">>,
      <<"}", ";">>>>

\* A file whose root holds a child written on one line and a property
\* behind it.
OneLineChildFile ==
    <<<<"/", " ", "{">>,
      <<"c", " ", "{", " ", "x", " ", "=", " ", "\"", "1", "\"", ";", " ",
        "}", ";">>,
      <<"a", " ", "=", " ", "\"", "1", "\"", ";">>,
      <<"}", ";">>>>

\* The files decoded: a file that cannot be opened, the four files above
\* and every file of at most MaxLines lines of DtsLines.
DtsFiles ==
    {Null, Some(SampleOneLine), Some(SampleLines), Some(ValuesFile),
     Some(OneLineChildFile)}
        \cup {Some(lines) : lines \in UNION {[1..n -> DtsLines] : n \in 0..MaxLines}}

InitDTS ==
    /\ DiffIdle
    /\ InitDtbIdle
    /\ SelIdle
    /\ HeapIdle
    /\ dtsInput \in DtsFiles
    /\ dtsState = [pc |-> "idle"]

\* A call of DTSParser::parse on the file.
ParseDTS ==
    /\ dtsState.pc = "idle"
    /\ dtsState' = DTSParser_parse(dtsInput)
    /\ UNCHANGED dtsInput
    /\ UNCHANGED <<diffVars, dtbVars, selVars, heapVars>>

NextDTS == ParseDTS

SpecDTS == InitDTS /\ [][NextDTS]_vars

----------------------------------------------------------------------------
(* The decoder selector (DeviceTreeParserFactory).                         *)

\* What the four bytes of the local variable magic may hold before the
\* read: the variable is not initialised, so anything the stack held, a
\* magic number left by an earlier call included.
Indeterminate == {<<0, 0, 0, 0>>, FDT_MAGIC, FDT_MAGIC_SWAPPED}

\* file.read(&magic, 4): the bytes the file has, at most four, are stored
\* at the start of magic; the bytes behind them keep what they held.
ReadMagic(content, garbage) ==
    [i \in 1..4 |-> IF i <= Len(content) THEN content[i] ELSE garbage[i]]

\* DTBParser::canParse on a file name and the content of the file (null
\* when it cannot be opened).
DTBParser_canParse(filename, file, garbage) ==
    IF find(filename, <<".", "d", "t", "b">>) # npos THEN TRUE
    ELSE IF file = Null THEN FALSE
    ELSE LET magic == HostWord(ReadMagic(file[1], garbage), 0) IN
         magic = FDT_MAGIC \/ magic = FDT_MAGIC_SWAPPED

\* DTSParser::canParse
DTSParser_canParse(filename) ==
    find(filename, <<".", "d", "t", "s">>) # npos

\* DeviceTreeParserFactory::getAllParsers
getAllParsers == <<"DTBParser", "DTSParser">>

\* parser->canParse(filename) for the parsers of getAllParsers.
canParse(parser, filename, file, garbage) ==
    IF parser = "DTBParser" THEN DTBParser_canParse(filename, file, garbage)
    ELSE DTSParser_canParse(filename)

\* DeviceTreeParserFactory::createParser: the first parser that can parse
\* the file, or null.
createParser(filename, file, garbage) ==
    LET parsers == getAllParsers
        accepting == {i \in 1..Len(parsers) :
                        canParse(parsers[i], filename, file, garbage)}
    IN IF accepting = {} THEN Null
       ELSE Some(parsers[CHOOSE i \in accepting :
                            \A j \in accepting : i <= j])

\* The file names: each hint, no hint, both hints, and .dtsi.
FileNames ==
    {<<"a", ".", "d", "t", "b">>,
     <<"a", ".", "d", "t", "s">>,
     <<"a", ".", "t", "x", "t">>,
     <<"a", ".", "d", "t", "s", ".", "d", "t", "b">>,
     <<"a", ".", "d", "t", "s", "i">>}

\* The contents: no file, the empty file, the first three bytes of the
\* magic number, the magic number in either byte order, alone or with a
\* byte behind it, and two texts.
Contents ==
    {Null, Some(<<>>), Some(<<208, 13, 254>>), Some(FDT_MAGIC),
     Some(FDT_MAGIC_SWAPPED), Some(FDT_MAGIC \o <<0>>),
     Some(<<47, 32, 123, 10>>), Some(<<47>>)}

InitSel ==
    /\ DiffIdle
    /\ DtsIdle
    /\ HeapIdle
    /\ dtbInput = <<>>
    /\ dtbState = [pc |-> "idle"]
    /\ hostLE \in BOOLEAN
    /\ selInput \in {Some([name |-> name, file |-> file]) :
                        name \in FileNames, file \in Contents}
    /\ selState = [pc |-> "idle"]

\* A call of DeviceTreeParserFactory::createParser on the file.
CreateParser ==
    /\ selState.pc = "idle"
    /\ \E garbage \in Indeterminate :
        selState' = [pc |-> "returned",
                     parser |-> createParser(selInput[1].name,
                                             selInput[1].file, garbage)]
    /\ UNCHANGED <<selInput, dtbVars>>
    /\ UNCHANGED <<diffVars, dtsVars, heapVars>>

NextSel == CreateParser

SpecSel == InitSel /\ [][NextSel]_vars

----------------------------------------------------------------------------
(* Node objects (DeviceTreeNode behind std::shared_ptr).  heap[n] holds    *)
(* the members of object n: name_ as the sequence of its characters,       *)
(* parent_ as null or the object it refers to, children_ as the list of    *)
(* the objects it refers to.                                               *)

\* The number of calls in a behaviour.
MaxCalls == 3

\* The objects: the root and two more nodes.
NodeIds == {1, 2, 3}

RootId == 1

\* DeviceTreeNode::DeviceTreeNode(name)
NewNode(name) == [name |-> name, parent |-> Null, children |-> <<>>]

\* DeviceTreeNode::addChild called on object this.
Node_addChild(h, this, child) ==
    IF child # Null
    THEN LET set == [h EXCEPT ![child[1]].parent = Some(this)] IN
         [set EXCEPT ![this].children = Append(@, child[1])]
    ELSE h

\* std::find(children_.begin(), children_.end(), child): the position of
\* the first occurrence, 0 for end().
FindChild(children, child) ==
    IF \E i \in 1..Len(children) : children[i] = child
    THEN CHOOSE i \in 1..Len(children) :
            /\ children[i] = child
            /\ \A j \in 1..(i - 1) : children[j] # child
    ELSE 0

\* DeviceTreeNode::removeChild called on object this.
Node_removeChild(h, this, child) ==
    LET it == FindChild(h[this].children, child) IN
    IF it # 0
    THEN [h EXCEPT ![this].children =
            SubSeq(@, 1, it - 1) \o SubSeq(@, it + 1, Len(@))]
    ELSE h

\* DeviceTreeNode::getParent: parent_.lock()
getParent(h, n) == h[n].parent

RECURSIVE PathComponents(_, _, _)
\* The loop of getFullPath that walks up the parents: the names from the
\* topmost node down to the node, as far as steps iterations get.
PathComponents(h, current, steps) ==
    IF current = Null \/ steps = 0 THEN <<>>
    ELSE Append(PathComponents(h, getParent(h, current[1]), steps - 1),
                h[current[1]].name)

RECURSIVE OnParentCycle(_, _, _)
\* The walk up the parents from current never reaches a null parent.
OnParentCycle(h, current, steps) ==
    IF current = Null THEN FALSE
    ELSE IF steps = 0 THEN TRUE
    ELSE OnParentCycle(h, getParent(h, current[1]), steps - 1)

RECURSIVE JoinPath(_, _)
\* The loop of getFullPath over the components.
JoinPath(path, components) ==
    IF components = <<>> THEN path
    ELSE JoinPath(IF Head(components) # <<"/">>
                  THEN path \o <<"/">> \o Head(components)
                  ELSE <<"/">>,
                  Tail(components))

\* DeviceTreeNode::getFullPath of object n: the path, or no return when
\* the parents form a cycle.
getFullPath(h, n) ==
    IF OnParentCycle(h, Some(n), Cardinality(DOMAIN h))
    THEN [kind |-> "diverges", path |-> <<>>]
    ELSE [kind |-> "returned",
          path |-> JoinPath(<<>>, PathComponents(h, Some(n),
                                                 Cardinality(DOMAIN h)))]

\* The last child of object current with the name, or null.
LastChildNamed(h, current, component) ==
    LET children == h[current].children
        matching == {i \in 1..Len(children) : h[children[i]].name = component}
    IN IF matching = {} THEN Null
       ELSE Some(children[CHOOSE i \in matching : \A j \in matching : i >= j])

\* The first child of object current with the name, or null.
FirstChildNamed(h, current, component) ==
    LET children == h[current].children
        matching == {i \in 1..Len(children) : h[children[i]].name = component}
    IN IF matching = {} THEN Null
       ELSE Some(children[CHOOSE i \in matching : \A j \in matching : i <= j])

RECURSIVE Descend(_, _, _)
\* The loop of findNodeByPath over the components of the path.
Descend(h, current, components) ==
    IF components = <<>> THEN Some(current)
    ELSE IF Head(components) = <<>> THEN Descend(h, current, Tail(components))
    ELSE LET child == FirstChildNamed(h, current, Head(components)) IN
         IF child = Null THEN Null
         ELSE Descend(h, child[1], Tail(components))

\* DeviceTreeNode::findNodeByPath called on object this.
findNodeByPath(h, this, path) ==
    IF path = <<>> \/ path = <<"/">> THEN Some(this)
    ELSE LET currentPath == IF path[1] = "/" THEN substrFrom(path, 1)
                            ELSE path
         IN Descend(h, this, SplitOn(currentPath, "/"))

\* The names of the nodes below the root.
HeapNames == {<<"a">>, <<"b">>, <<"/">>, <<>>}

DecodersIdle == InitDtbIdle /\ DtsIdle /\ SelIdle

\* A root named "/" and two nodes not yet added to any node.
InitNodes ==
    /\ DiffIdle
    /\ DecodersIdle
    /\ \E n2 \in HeapNames, n3 \in HeapNames :
        heap = <<NewNode(<<"/">>), NewNode(n2), NewNode(n3)>>
    /\ heapCall = [op |-> "none", removals |-> 0]
    /\ nCalls = 0

\* A call this->addChild(child) or this->removeChild(child); the record of
\* the call counts the removeChild calls made so far.
NodeCall(op, this, child, after) ==
    /\ nCalls < MaxCalls
    /\ heap' = after
    /\ heapCall' = [op |-> op, this |-> this, child |-> child,
                    removals |-> heapCall.removals
                                    + (IF op = "removeChild" THEN 1 ELSE 0)]
    /\ nCalls' = nCalls + 1
    /\ UNCHANGED <<diffVars, dtbVars, dtsVars, selVars>>

NodeAddChild ==
    \E this \in NodeIds, child \in {Null} \cup {Some(c) : c \in NodeIds} :
        NodeCall("addChild", this, child, Node_addChild(heap, this, child))

NodeRemoveChild ==
    \E this \in NodeIds, child \in NodeIds :
        NodeCall("removeChild", this, Some(child),
                 Node_removeChild(heap, this, child))

NextNodes == NodeAddChild \/ NodeRemoveChild

SpecNodes == InitNodes /\ [][NextNodes]_vars

----------------------------------------------------------------------------
(* The properties of one node object: heap holds the node, the record of   *)
(* the last call holds its arguments, the properties before the call and,  *)
(* for every name, the value of the latest addProperty not removed since.  *)

\* DeviceTreeNode::findProperty: a pointer to the first property of the
\* name, or null.
findProperty(node, name) ==
    LET matching == {i \in 1..Len(node.properties) :
                        node.properties[i].name = name}
    IN IF matching = {} THEN Null
       ELSE Some(node.properties[CHOOSE i \in matching :
                                    \A j \in matching : i <= j])

\* DeviceTreeNode::getPropertyCount
getPropertyCount(node) == Len(node.properties)

\* A node without properties.
InitProps ==
    /\ DiffIdle
    /\ DecodersIdle
    /\ heap = <<DeviceTreeNode("/")>>
    /\ heapCall = [op |-> "none", latest |-> [n \in PropNames |-> Null]]
    /\ nCalls = 0

\* A call node->addProperty(DeviceTreeProperty(name, value)).
NodeAddProperty ==
    /\ nCalls < MaxCalls
    /\ \E name \in PropNames, value \in PropValues :
        /\ heap' = <<addProperty(heap[1], DeviceTreeProperty(name, value))>>
        /\ heapCall' = [op |-> "addProperty", name |-> name, value |-> value,
                        before |-> heap[1].properties,
                        latest |-> [heapCall.latest EXCEPT
                                        ![name] = Some(value)]]
    /\ nCalls' = nCalls + 1
    /\ UNCHANGED <<diffVars, dtbVars, dtsVars, selVars>>

\* A call node->removeProperty(name).
NodeRemoveProperty ==
    /\ nCalls < MaxCalls
    /\ \E name \in PropNames :
        /\ heap' = <<removeProperty(heap[1], name)>>
        /\ heapCall' = [op |-> "removeProperty", name |-> name,
                        value |-> Null, before |-> heap[1].properties,
                        latest |-> [heapCall.latest EXCEPT ![name] = Null]]
    /\ nCalls' = nCalls + 1
    /\ UNCHANGED <<diffVars, dtbVars, dtsVars, selVars>>

NextProps == NodeAddProperty \/ NodeRemoveProperty

SpecProps == InitProps /\ [][NextProps]_vars

----------------------------------------------------------------------------
(* The comparison as a function of two trees: an engine is built on a pair *)
(* of trees drawn from a set of small trees and generateDiff is called.    *)

\* The values of the property x of the trees compared: empty and non-empty
\* values of the four kinds, two of them with the same rendering.
CompareValues ==
    {StringValue(""), StringValue("1"), CellsValue(<<>>), CellsValue(<<1>>),
     Cells64Value(<<1>>), BinaryValue(<<1, 171>>)}

\* The property lists of the roots compared.
CompareProps ==
    {<<>>} \cup {<<DeviceTreeProperty("x", v)>> : v \in CompareValues}

\* The children lists of the roots compared: none, one child a, one child
\* b, two children a that differ in a property, children a and b, and a
\* child a with a child b of its own.
CompareChildren ==
    {<<>>,
     <<Leaf("a", <<>>)>>,
     <<Leaf("b", <<>>)>>,
     <<Leaf("a", <<DeviceTreeProperty("x", StringValue("1"))>>)>>,
     <<Leaf("a", <<DeviceTreeProperty("x", StringValue("1"))>>),
       Leaf("a", <<>>)>>,
     <<Leaf("a", <<>>),
       Leaf("a", <<DeviceTreeProperty("x", StringValue("1"))>>)>>,
     <<Leaf("b", <<>>), Leaf("a", <<>>)>>,
     <<[name |-> "a", properties |-> <<>>,
        children |-> <<Leaf("b", <<>>)>>]>>}

\* The trees compared.
CompareTrees ==
    {TreeWith(Root(props, children)) :
        props \in CompareProps, children \in CompareChildren}

InitCompare ==
    /\ baseTree \in {Some(t) : t \in CompareTrees}
    /\ overlayTree \in {Some(t) : t \in CompareTrees}
    /\ aliased = FALSE
    /\ diffCache = <<>>
    /\ diffGenerated = FALSE
    /\ stats = NoStats
    /\ statsCalculated = FALSE
    /\ lastCall = NoCall
    /\ nOps = 0
    /\ DecodersIdle
    /\ HeapIdle

EXIT_SUCCESS == 0

EXIT_FAILURE == 1

\* CLIApp::handleDiff once the two files were found: a file that failed to
\* load is Null.  The diff is built on the two loaded trees, printed, and
\* the exit status is taken from the number of its entries.
handleDiff(base, overlay) ==
    IF base = Null \/ overlay = Null
    THEN [status |-> EXIT_FAILURE, cache |-> <<>>, generated |-> FALSE,
          raised |-> FALSE]
    ELSE LET g == generateDiff(base, overlay, <<>>, FALSE)
         IN [status |-> IF Len(g.cache) > 0 THEN EXIT_SUCCESS
                        ELSE EXIT_FAILURE,
             cache |-> g.cache, generated |-> g.generated,
             raised |-> g.raised]

\* The diff command run on the two loaded files.
HandleDiff ==
    /\ lastCall = NoCall
    /\ diffCache' = handleDiff(baseTree, overlayTree).cache
    /\ diffGenerated' = handleDiff(baseTree, overlayTree).generated
    /\ lastCall' = Call("handleDiff", handleDiff(baseTree, overlayTree).cache,
                        handleDiff(baseTree, overlayTree).status, FALSE,
                        handleDiff(baseTree, overlayTree).raised)
    /\ UNCHANGED <<stats, statsCalculated>>
    /\ QueryFrame

NextCompare == GenerateDiff \/ HandleDiff

SpecCompare == InitCompare /\ [][NextCompare]_vars

----------------------------------------------------------------------------
(* DeviceTree::loadFromFile: the tree object with its root_ and its        *)
(* sourceFile_, loaded from files given by name and content.               *)

\* The most calls of loadFromFile made on the tree.
MaxLoads == 2

\* A DeviceTree with its sourceFile_ member, as the constructor leaves it.
DeviceTreeObject == [root |-> Some(DeviceTreeNode("/")), sourceFile |-> <<>>]

\* The character codes of the texts loaded.
CharCode ==
    ("/" :> 47) @@ (" " :> 32) @@ ("{" :> 123) @@ ("}" :> 125)
    @@ (";" :> 59) @@ ("a" :> 97) @@ ("=" :> 61) @@ ("\"" :> 34)
    @@ ("1" :> 49) @@ ("\t" :> 9)

\* The character of a byte; a byte of no text loaded is written as an
\* escape.
TextChar(code) ==
    IF \E c \in DOMAIN CharCode : CharCode[c] = code
    THEN CHOOSE c \in DOMAIN CharCode : CharCode[c] = code
    ELSE "\\x" \o Hex2(code)

RECURSIVE getlines(_, _)
\* The lines std::getline reads from a stream of bytes: line holds the
\* characters read since the last newline.
getlines(bytes, line) ==
    IF bytes = <<>> THEN (IF line = <<>> THEN <<>> ELSE <<line>>)
    ELSE IF Head(bytes) = 10 THEN <<line>> \o getlines(Tail(bytes), <<>>)
    ELSE getlines(Tail(bytes), Append(line, TextChar(Head(bytes))))

\* The file as the text decoder opens it: null, or its lines.
AsText(file) == IF file = Null THEN Null ELSE Some(getlines(file[1], <<>>))

\* The end of loadFromFile (lines 246-254) on what parser->parse returned.
LoadParsed(tree, filename, parsed) ==
    IF parsed.pc = "crashed"
    THEN [pc |-> "crashed", value |-> FALSE, tree |-> tree]
    ELSE IF parsed.result = Null
    THEN [pc |-> "returned", value |-> FALSE, tree |-> tree]
    ELSE [pc |-> "returned", value |-> TRUE,
          tree |-> [root |-> parsed.result[1].root, sourceFile |-> filename]]

\* A loadFromFile that records the file name before the file is decoded.
loadFromFileEager(tree, filename, file, parser, beyond, strict) ==
    IF parser = Null
    THEN [pc |-> "returned", value |-> FALSE, tree |-> tree]
    ELSE IF parser[1] = "DTBParser"
    THEN LoadParsed([tree EXCEPT !.sourceFile = filename], filename,
                    parse(file, beyond, strict))
    ELSE LoadParsed([tree EXCEPT !.sourceFile = filename], filename,
                    DTSParser_parse(AsText(file)))

\* DeviceTree::loadFromFile on the tree, with the parser createParser
\* returned for the file.
loadFromFile(tree, filename, file, parser, beyond, strict) ==
    IF parser = Null
    THEN [pc |-> "returned", value |-> FALSE, tree |-> tree]
    ELSE IF parser[1] = "DTBParser"
    THEN LoadParsed(tree, filename, parse(file, beyond, strict))
    ELSE LoadParsed(tree, filename, DTSParser_parse(AsText(file)))

RECURSIVE BytesOfLines(_)
\* The bytes of a text file of the given lines.
BytesOfLines(lines) ==
    IF lines = <<>> THEN <<>>
    ELSE [i \in 1..Len(Head(lines)) |-> CharCode[Head(lines)[i]]] \o <<10>>
         \o BytesOfLines(Tail(lines))

\* A text with a root that holds the property a, and a text without a
\* node.
RootText ==
    <<<<"/", " ", "{">>,
      <<"\t", "a", " ", "=", " ", "\"", "1", "\"", ";">>,
      <<"}", ";">>>>

NoNodeText == <<<<"a", " ", "=", " ", "\"", "1", "\"", ";">>>>

\* The contents loaded: no file, the two texts, a well-formed binary file
\* in either byte order, and the magic number with nothing behind it.
LoadContents ==
    {Null, Some(BytesOfLines(RootText)), Some(BytesOfLines(NoNodeText)),
     Some(WellFormedBlob("big")), Some(WellFormedBlob("little")),
     Some(FDT_MAGIC)}

\* The names loaded: a binary hint, a text hint and no hint.
LoadNames ==
    {<<"a", ".", "d", "t", "b">>, <<"b", ".", "d", "t", "s">>,
     <<"c", ".", "t", "x", "t">>}

InitLoad ==
    /\ baseTree = Some(DeviceTreeObject)
    /\ overlayTree = Null
    /\ aliased = FALSE
    /\ diffCache = <<>>
    /\ diffGenerated = FALSE
    /\ stats = NoStats
    /\ statsCalculated = FALSE
    /\ lastCall = NoCall
    /\ nOps = 0
    /\ DtsIdle
    /\ dtbInput = <<>>
    /\ dtbState = [pc |-> "idle"]
    /\ hostLE \in BOOLEAN
    /\ selInput = <<>>
    /\ selState = [pc |-> "idle"]
    /\ HeapIdle

\* What a call of loadFromFile leaves: the tree, the file it was called on
\* and the value returned; a crash of the decoder ends everything.
Loaded(name, file, r) ==
    /\ baseTree' = Some(r.tree)
    /\ selInput' = Some([name |-> name, file |-> file])
    /\ lastCall' = Call(IF r.pc = "crashed" THEN "crashed" ELSE "loadFromFile",
                        <<>>, 0, r.value, FALSE)

\* A call of loadFromFile on the tree.
LoadFromFile ==
    /\ nOps < MaxLoads
    /\ lastCall.op # "crashed"
    /\ \E name \in LoadNames, file \in LoadContents :
       \E garbage \in Indeterminate, beyond \in Slack, strict \in BOOLEAN :
          Loaded(name, file,
                 loadFromFile(baseTree[1], name, file,
                              createParser(name, file, garbage),
                              beyond, strict))
    /\ nOps' = nOps + 1
    /\ UNCHANGED <<overlayTree, aliased, diffCache, diffGenerated, stats,
                   statsCalculated, selState>>
    /\ UNCHANGED <<dtbVars, dtsVars, heapVars>>

NextLoad == LoadFromFile

SpecLoad == InitLoad /\ [][NextLoad]_vars

----------------------------------------------------------------------------
(* Properties of the diff engine.                                          *)

\* The comparison of the two trees as they are now.
FreshDiff ==
    IF isValid(baseTree, overlayTree)
    THEN compareNodes(baseTree[1].root, overlayTree[1].root, "/")
    ELSE <<>>

ListOps == {"generateDiff", "getAddedNodes", "getRemovedNodes",
            "getModifiedProperties"}

CountOps == {"getTotalChanges", "getAddedCount", "getRemovedCount",
             "getModifiedCount"}

\* The names of the children of a node, in insertion order.
ChildNames(node) == [i \in 1..Len(node.children) |-> node.children[i].name]

\* C1: a diff engine built with one tree T as both base and overlay returns
\* the empty sequence from generateDiff, and so does the comparison of any
\* two trees that are equal, whatever T holds (several children of one
\* name, properties of all four kinds).
C1_SelfDiffEmpty ==
    /\ (aliased /\ lastCall.op = "generateDiff") => lastCall.entries = <<>>
    /\ (baseTree # Null /\ baseTree = overlayTree) =>
          generateDiffInternal(baseTree, overlayTree).cache = <<>>

\* A tree with two children named "a" and the four value kinds was given as
\* base and as overlay, and generateDiff has returned.
C1_Witness ==
    /\ aliased
    /\ baseTree = Some(RichTree)
    /\ overlayTree = Some(RichTree)
    /\ diffGenerated
    /\ lastCall.op = "generateDiff"
    /\ lastCall.entries = <<>>

\* C2: when the base tree, the overlay tree or both are absent, isValid
\* returns false, generateDiff and the filtered lists are empty, every count
\* is 0, and no call raises.
C2_AbsentTreeEmptyDiff ==
    (baseTree = Null \/ overlayTree = Null) =>
        /\ ~lastCall.raised
        /\ lastCall.op = "isValid" => ~lastCall.flag
        /\ lastCall.op \in ListOps => lastCall.entries = <<>>
        /\ lastCall.op \in CountOps => lastCall.count = 0
        /\ statsCalculated => stats = NoStats
        /\ diffCache = <<>>

\* The base tree is absent, the overlay has a child, and generateDiff has
\* returned the empty sequence.
C2_Witness ==
    /\ baseTree = Null
    /\ overlayTree # Null
    /\ overlayTree[1].root # Null
    /\ Len(overlayTree[1].root[1].children) > 0
    /\ lastCall.op = "generateDiff"
    /\ lastCall.entries = <<>>

RECURSIVE PathsUnder(_, _)
\* The paths compareNodes gives to `node` (at `path`) and its descendants.
PathsUnder(path, node) ==
    {path} \cup UNION { PathsUnder(ChildPath(path, node.children[i].name),
                                   node.children[i])
                        : i \in 1..Len(node.children) }

\* The last child of `node` with the given name.
LastChild(node, name) == NameMap(node.children)[name]

\* The place of an entry in the order the claim states for a node at `path`
\* present in both trees: <<0, "">> for an entry of the node itself, <<1, k>>
\* for an entry below the overlay's child name k, <<2, k>> for an entry below
\* a child name k that only the base has.
EntryPlace(entry, b, o, path) ==
    LET oNames == { o.children[i].name : i \in 1..Len(o.children) }
        bNames == { b.children[i].name : i \in 1..Len(b.children) }
        below(k) ==
            (IF k \in oNames
             THEN PathsUnder(ChildPath(path, k), LastChild(o, k)) ELSE {})
            \cup
            (IF k \in bNames
             THEN PathsUnder(ChildPath(path, k), LastChild(b, k)) ELSE {})
    IN  IF entry.path = path THEN <<0, "">>
        ELSE LET k == CHOOSE n \in oNames \cup bNames : entry.path \in below(n)
             IN  <<IF k \in oNames THEN 1 ELSE 2, k>>

PlaceBefore(p, q) ==
    \/ p[1] < q[1]
    \/ p[1] = q[1] /\ p[2] # q[2] /\ StringLess(p[2], q[2])

\* The entries of compareNodes for two present nodes are in the order: own
\* property entries, overlay child names ascending, base-only child names
\* ascending; an overlay-only child gives Added and a base-only child
\* Removed node-level entries.
EntriesOrdered(b, o, path) ==
    LET d == compareNodes(Some(b), Some(o), path)
        place(i) == EntryPlace(d[i], b, o, path)
    IN  /\ \A i \in 1..Len(d) :
              \/ d[i].path = path /\ d[i].propertyName # ""
              \/ /\ d[i].path # path
                 /\ place(i)[1] = 2 =>
                        d[i].type = "Removed" /\ d[i].propertyName = ""
                 /\ (place(i)[1] = 1 /\
                     place(i)[2] \notin { b.children[j].name :
                                            j \in 1..Len(b.children) }) =>
                        d[i].type = "Added" /\ d[i].propertyName = ""
        /\ \A i, j \in 1..Len(d) :
              i < j => ~PlaceBefore(place(j), place(i))

RECURSIVE OrderedEverywhere(_, _, _)
\* EntriesOrdered for the two nodes and for every pair of nodes below them
\* that compareNodes compares.
OrderedEverywhere(b, o, path) ==
    /\ EntriesOrdered(b, o, path)
    /\ \A k \in { b.children[i].name : i \in 1..Len(b.children) }
             \cap { o.children[i].name : i \in 1..Len(o.children) } :
          OrderedEverywhere(LastChild(b, k), LastChild(o, k), ChildPath(path, k))

\* C3: for a node present in both trees the entries come in the order: the
\* node's property entries, then the overlay's child names in ascending
\* order (comparison or Added), then the base-only child names in ascending
\* order (Removed), whatever the insertion order; base children b, a and
\* overlay children a, c give Added c, then Removed b.
C3_DiffChildOrder ==
    (/\ isValid(baseTree, overlayTree)
     /\ baseTree[1].root # Null
     /\ overlayTree[1].root # Null) =>
        LET b == baseTree[1].root[1]
            o == overlayTree[1].root[1]
            d == compareNodes(Some(b), Some(o), "/")
        IN  /\ OrderedEverywhere(b, o, "/")
            /\ (baseTree = Some(OrderBase) /\ overlayTree = Some(OrderOverlay)) =>
                  /\ Len(d) = 2
                  /\ d[1].type = "Added" /\ d[1].description = "Node added: c"
                  /\ d[2].type = "Removed" /\ d[2].description = "Node removed: b"

\* Base children b, a (a changed since), overlay children a, c: generateDiff
\* returned the entry of the comparison of a, then Added c, then Removed b.
C3_Witness ==
    /\ isValid(baseTree, overlayTree)
    /\ baseTree[1].root # Null
    /\ overlayTree[1].root # Null
    /\ ChildNames(baseTree[1].root[1]) = <<"b", "a">>
    /\ ChildNames(overlayTree[1].root[1]) = <<"a", "c">>
    /\ lastCall.op = "generateDiff"
    /\ lastCall.entries = FreshDiff
    /\ Len(lastCall.entries) = 3
    /\ lastCall.entries[1].propertyName # ""
    /\ lastCall.entries[2].description = "Node added: c"
    /\ lastCall.entries[3].description = "Node removed: b"

\* C4: an empty root against a root with the single child child@0 holding
\* x = <1> yields exactly two entries: the Added node-level entry with path
\* "/child@0", then the Added entry of property x with path "/child@0".
C4_ScenarioC ==
    (/\ nOps = 0
     /\ baseTree = Some(DeviceTree)
     /\ overlayTree = Some(ScenarioCOverlay)
     /\ lastCall.op = "generateDiff") =>
        /\ Len(lastCall.entries) = 2
        /\ lastCall.entries[1].type = "Added"
        /\ lastCall.entries[1].propertyName = ""
        /\ lastCall.entries[1].path = "/child@0"
        /\ lastCall.entries[2].type = "Added"
        /\ lastCall.entries[2].propertyName = "x"
        /\ lastCall.entries[2].path = "/child@0"

\* C5: a = "1" against a = "2" on the root yields exactly one entry:
\* Modified, path "/", propertyName a, oldValue the text 1, newValue the
\* text 2.
C5_ScenarioB ==
    (/\ nOps = 0
     /\ baseTree = Some(ScenarioBBase)
     /\ overlayTree = Some(ScenarioBOverlay)
     /\ lastCall.op = "generateDiff") =>
        /\ Len(lastCall.entries) = 1
        /\ lastCall.entries[1].type = "Modified"
        /\ lastCall.entries[1].path = "/"
        /\ lastCall.entries[1].propertyName = "a"
        /\ lastCall.entries[1].oldValue = "1"
        /\ lastCall.entries[1].newValue = "2"

\* The calls that start with generateDiff().
DiffOps == ListOps \cup CountOps

\* C6: on two present trees the first generateDiff computes the comparison
\* of the trees as they are then; from then on the cached sequence never
\* changes, every generateDiff returns it and every count is taken from it,
\* whatever was done to the trees in between.
C6_ComputedOnce ==
    [][/\ (~diffGenerated /\ isValid(baseTree, overlayTree)
              /\ lastCall'.op \in DiffOps) =>
            /\ diffGenerated'
            /\ diffCache' = FreshDiff
       /\ diffGenerated =>
            /\ diffGenerated'
            /\ diffCache' = diffCache
            /\ lastCall'.op = "generateDiff" => lastCall'.entries = diffCache
            /\ lastCall'.op = "getTotalChanges" =>
                    lastCall'.count = Len(diffCache)]_vars

\* A tree was changed after the first generateDiff, and a later generateDiff
\* returned the sequence computed before the change.
C6_Witness ==
    /\ diffGenerated
    /\ nOps > 0
    /\ lastCall.op = "generateDiff"
    /\ lastCall.entries = diffCache
    /\ diffCache # FreshDiff

\* The indices of the entries of d of the given kind, node-level or
\* property-level.
Matching(d, type, nodeLevel) ==
    { i \in 1..Len(d) :
        d[i].type = type /\ ((d[i].propertyName = "") <=> nodeLevel) }

\* s consists of the entries of d at the indices I, in the order of d.
IsFiltered(s, d, I) ==
    /\ Len(s) = Cardinality(I)
    /\ \A j \in 1..Len(s) :
          \E i \in I : /\ s[j] = d[i]
                       /\ Cardinality({ k \in I : k < i }) = j - 1

\* C7: the added-node, removed-node and modified-property counts and the
\* added/removed-property counts are the numbers of entries of the diff of
\* that kind (node-level: empty propertyName), and each filtered list holds
\* those entries in the order of the full sequence.
C7_AggregateCounts ==
    /\ lastCall.op = "getTotalChanges" => lastCall.count = Len(diffCache)
    /\ lastCall.op = "getAddedCount" =>
          lastCall.count = Cardinality(Matching(diffCache, "Added", TRUE))
    /\ lastCall.op = "getRemovedCount" =>
          lastCall.count = Cardinality(Matching(diffCache, "Removed", TRUE))
    /\ lastCall.op = "getModifiedCount" =>
          lastCall.count = Cardinality(Matching(diffCache, "Modified", FALSE))
    /\ lastCall.op = "getAddedNodes" =>
          IsFiltered(lastCall.entries, diffCache,
                     Matching(diffCache, "Added", TRUE))
    /\ lastCall.op = "getRemovedNodes" =>
          IsFiltered(lastCall.entries, diffCache,
                     Matching(diffCache, "Removed", TRUE))
    /\ lastCall.op = "getModifiedProperties" =>
          IsFiltered(lastCall.entries, diffCache,
                     Matching(diffCache, "Modified", FALSE))
    /\ statsCalculated =>
          /\ stats.totalChanges = Len(diffCache)
          /\ stats.addedNodes =
                Cardinality(Matching(diffCache, "Added", TRUE))
          /\ stats.removedNodes =
                Cardinality(Matching(diffCache, "Removed", TRUE))
          /\ stats.modifiedProperties =
                Cardinality(Matching(diffCache, "Modified", FALSE))
          /\ stats.addedProperties =
                Cardinality(Matching(diffCache, "Added", FALSE))
          /\ stats.removedProperties =
                Cardinality(Matching(diffCache, "Removed", FALSE))

\* getAddedCount returned 1 on a diff that also holds a removed node and a
\* property-level entry.
C7_Witness ==
    /\ lastCall.op = "getAddedCount"
    /\ lastCall.count = 1
    /\ Cardinality(Matching(diffCache, "Removed", TRUE)) = 1
    /\ \E i \in 1..Len(diffCache) :
          diffCache[i].propertyName # "" /\ diffCache[i].type = "Added"

----------------------------------------------------------------------------
(* Properties of the binary decoder.                                       *)

\* The bytes of the file, its length, and the run being over.
DtbBuffer == dtbInput[1]

DtbSize == Len(DtbBuffer)

DtbDone == dtbState.pc # "idle" /\ dtbInput # Null

\* The decoder fails: parse returns, and what it returns is null.
DtbFails == dtbState.pc = "returned" /\ dtbState.result = Null

\* The bytes of header word i (0 for the magic) in file order.
FileBytes(i) == SubSeq(DtbBuffer, 4 * i + 1, 4 * i + 4)

\* The magic is 0xd00dfeed written in either byte order.
MagicValid == FileBytes(0) \in {FDT_MAGIC, FDT_MAGIC_SWAPPED}

\* The normalized header field i: the number the bytes of word i stand for
\* in the byte order the magic is written in.
FieldValue(i) ==
    IF FileBytes(0) = FDT_MAGIC THEN FileBytes(i) ELSE bswap32(FileBytes(i))

\* C8: for every input of at least 40 bytes with a valid magic whose
\* normalized totalsize field differs from the length of the input, the
\* decoder fails and returns no tree, whatever the other header fields and
\* the bytes behind the header are.
C8_TotalsizeMismatch ==
    (/\ DtbDone
     /\ DtbSize >= 40
     /\ MagicValid
     /\ FieldValue(1) # U32(DtbSize))
    => DtbFails

\* C8 happens: a file whose header and structure block are otherwise well
\* formed, with a totalsize one below its length, has been rejected.
C8_Witness ==
    /\ DtbDone
    /\ DtbSize = 56
    /\ MagicValid
    /\ FieldValue(1) = U32(55)
    /\ FieldValue(2) = U32(40) /\ FieldValue(9) = U32(8)
    /\ FieldValue(3) = U32(40) /\ FieldValue(8) = U32(0)
    /\ FieldValue(4) = U32(40) /\ FieldValue(5) = U32(17)
    /\ DtbFails
    /\ dtbState.what = "File size mismatch"

\* a + b > n with the sum taken in the integers, not modulo 2^32.
SumExceeds(a, b, n) == Carry(a, b, 1) = 1 \/ Lt32(n, Add32(a, b))

\* C9: for an input with a valid magic and a totalsize equal to its length,
\* if off_dt_struct, off_dt_strings or off_mem_rsvmap is >= totalsize, or
\* off_dt_struct + size_dt_struct or off_dt_strings + size_dt_strings
\* (sums without wrap-around) exceeds totalsize, no tree is returned.
C9_BlockBounds ==
    (/\ DtbDone
     /\ DtbSize >= 40
     /\ MagicValid
     /\ FieldValue(1) = U32(DtbSize)
     /\ \/ ~Lt32(FieldValue(2), FieldValue(1))
        \/ ~Lt32(FieldValue(3), FieldValue(1))
        \/ ~Lt32(FieldValue(4), FieldValue(1))
        \/ SumExceeds(FieldValue(2), FieldValue(9), FieldValue(1))
        \/ SumExceeds(FieldValue(3), FieldValue(8), FieldValue(1)))
    => dtbState.result = Null

\* C10: the decoder fails and returns no tree for every input shorter than
\* 40 bytes and for every input whose first word is neither 0xd00dfeed nor
\* 0xedfe0dd0; when the host reads the first word as 0xedfe0dd0, each of
\* the nine other fields the checks are made on is the byte reversal of
\* the word the host read, and the size check is made on the reversed
\* totalsize.
C10_HeaderGate ==
    DtbDone =>
        /\ DtbSize < 40 => DtbFails
        /\ (DtbSize >= 40 /\ ~MagicValid) => DtbFails
        /\ (DtbSize >= 40 /\ HostWord(DtbBuffer, 0) = FDT_MAGIC_SWAPPED) =>
            /\ dtbState.header # Null
            /\ \A i \in 1..9 :
                dtbState.header[1][HeaderFields[i + 1]]
                    = bswap32(HostWord(DtbBuffer, 4 * i))
            /\ (dtbState.what = "File size mismatch")
                <=> (bswap32(HostWord(DtbBuffer, 4)) # U32(DtbSize))

\* C10 happens: a file whose first word the host reads as 0xedfe0dd0 and
\* whose fields are not palindromes has been decoded into a tree.
C10_Witness ==
    /\ DtbDone
    /\ DtbSize >= 40
    /\ HostWord(DtbBuffer, 0) = FDT_MAGIC_SWAPPED
    /\ HostWord(DtbBuffer, 36) # bswap32(HostWord(DtbBuffer, 36))
    /\ dtbState.pc = "returned"
    /\ dtbState.result # Null

\* The byte order the magic of the file is written in.
FileOrder == IF FileBytes(0) = FDT_MAGIC THEN "big" ELSE "little"

\* The bytes at offset .. offset + n - 1 of a byte sequence.
BytesAt(bytes, offset, n) == SubSeq(bytes, offset + 1, offset + n)

\* n rounded up to a multiple of four.
Padded(n) == ((n + 3) \div 4) * 4

RECURSIVE NulAt(_, _)
\* The offset of the first NUL at or behind offset, or -1.
NulAt(bytes, offset) ==
    IF offset >= Len(bytes) THEN -1
    ELSE IF bytes[offset + 1] = 0 THEN offset
    ELSE NulAt(bytes, offset + 1)

RECURSIVE SwapStruct(_, _, _)
\* The bytes from offset on, read as a token stream written in the given
\* byte order, with every token word and every len and nameoff word byte
\* reversed and the node names and property values kept; the bytes behind
\* FDT_END, and the bytes that are no complete record, are kept.
SwapStruct(bytes, offset, order) ==
    LET rest == BytesAt(bytes, offset, Len(bytes) - offset) IN
    IF offset + 4 > Len(bytes) THEN rest
    ELSE
    LET word == BytesAt(bytes, offset, 4)
        token == FileWord(order, word)
    IN
    IF token = U32(FDT_END) THEN bswap32(word) \o
        BytesAt(bytes, offset + 4, Len(bytes) - offset - 4)
    ELSE IF token = U32(FDT_BEGIN_NODE)
    THEN LET nul == NulAt(bytes, offset + 4) IN
         IF nul < 0 \/ offset + 4 + Padded(nul - offset - 3) > Len(bytes)
         THEN bswap32(word) \o
              BytesAt(bytes, offset + 4, Len(bytes) - offset - 4)
         ELSE bswap32(word)
              \o BytesAt(bytes, offset + 4, Padded(nul - offset - 3))
              \o SwapStruct(bytes, offset + 4 + Padded(nul - offset - 3), order)
    ELSE IF token = U32(FDT_PROP)
    THEN IF offset + 12 > Len(bytes) THEN rest
         ELSE
         LET len == FileWord(order, BytesAt(bytes, offset + 4, 4)) IN
         IF len[1] >= 128 \/ offset + 12 + Padded(ToInt(len)) > Len(bytes)
         THEN rest
         ELSE bswap32(word)
              \o bswap32(BytesAt(bytes, offset + 4, 4))
              \o bswap32(BytesAt(bytes, offset + 8, 4))
              \o BytesAt(bytes, offset + 12, Padded(ToInt(len)))
              \o SwapStruct(bytes, offset + 12 + Padded(ToInt(len)), order)
    ELSE bswap32(word) \o SwapStruct(bytes, offset + 4, order)

\* The file with the magic, the nine other header fields and the words of
\* the structure block byte reversed.
SwapBlob ==
    LET header == Concat([i \in 1..10 |-> bswap32(FileBytes(i - 1))])
        start == IF FieldValue(2)[1] < 128 THEN ToInt(FieldValue(2))
                 ELSE DtbSize
    IN
    IF start < HeaderSize \/ start >= DtbSize
    THEN header \o BytesAt(DtbBuffer, HeaderSize, DtbSize - HeaderSize)
    ELSE header \o BytesAt(DtbBuffer, HeaderSize, start - HeaderSize)
         \o SwapStruct(DtbBuffer, start, FileOrder)

\* C11: whenever a file has been decoded into a tree, the file with the
\* magic, every other header field and every token, len and nameoff word
\* of the structure block byte reversed (names, values and strings kept)
\* is decoded, with the same memory behind the buffer, into a tree with the
\* same node names, nesting, child order, property names and values.
C11_SwappedBlobSameTree ==
    (DtbDone /\ dtbState.pc = "returned" /\ dtbState.result # Null) =>
        \A beyond \in Slack, strict \in BOOLEAN :
            parse(dtbInput, beyond, strict) = dtbState =>
                LET swapped == parse(Some(SwapBlob), beyond, strict) IN
                /\ swapped.pc = "returned"
                /\ swapped.result = dtbState.result

\* C11 happens: the well-formed file has been decoded into a tree, in one
\* byte order and in the other, and its reversal is another file.
C11_Witness ==
    /\ DtbDone
    /\ dtbState.pc = "returned"
    /\ dtbState.result # Null
    /\ dtbInput = Some(WellFormedBlob("little"))
    /\ SwapBlob = WellFormedBlob("big")

\* C12: decoding the well-formed file whose root holds a FDT_PROP record
\* with len = 0 for the name x yields a tree whose root has a property x of
\* the string kind and of length 0.
C12_EmptyProperty ==
    (DtbDone /\ \E order \in Orders : dtbInput = Some(WellFormedBlob(order)))
    => /\ dtbState.pc = "returned"
       /\ dtbState.result # Null
       /\ \E i \in 1..Len(dtbState.result[1].root[1].properties) :
            dtbState.result[1].root[1].properties[i]
                = DeviceTreeProperty("x", StringValue(""))

\* The file is one of the two well-formed files.
WellFormedInput ==
    \E order \in Orders :
        dtbInput \in {Some(WellFormedBlob(order)), Some(NestedBlob(order))}

RECURSIVE TokenCount(_, _, _, _)
\* The number of tokens of one kind in the token stream that starts at
\* offset, up to FDT_END.
TokenCount(bytes, offset, order, kind) ==
    IF offset + 4 > Len(bytes) THEN 0
    ELSE
    LET token == FileWord(order, BytesAt(bytes, offset, 4))
        one == IF token = U32(kind) THEN 1 ELSE 0
    IN
    IF token = U32(FDT_END) THEN 0
    ELSE IF token = U32(FDT_BEGIN_NODE)
    THEN one + TokenCount(bytes,
                          offset + 4 + Padded(NulAt(bytes, offset + 4)
                                              - offset - 3),
                          order, kind)
    ELSE IF token = U32(FDT_PROP)
    THEN one + TokenCount(bytes,
                          offset + 12 + Padded(ToInt(FileWord(order,
                              BytesAt(bytes, offset + 4, 4)))),
                          order, kind)
    ELSE one + TokenCount(bytes, offset + 4, order, kind)

RECURSIVE SumSeq(_)
\* The sum of a sequence of numbers.
SumSeq(numbers) ==
    IF numbers = <<>> THEN 0 ELSE Head(numbers) + SumSeq(Tail(numbers))

RECURSIVE NodeCount(_)
\* The number of nodes of the tree below and including a node.
NodeCount(node) ==
    1 + SumSeq([i \in 1..Len(node.children) |-> NodeCount(node.children[i])])

RECURSIVE PropertyTotal(_)
\* The number of properties of the nodes below and including a node.
PropertyTotal(node) ==
    Len(node.properties)
    + SumSeq([i \in 1..Len(node.children) |->
                 PropertyTotal(node.children[i])])

\* C25: decoding a well-formed structure block yields a tree that mirrors
\* the token stream: it has as many nodes as there are FDT_BEGIN_NODE
\* tokens before FDT_END, and as many properties as there are FDT_PROP
\* tokens (their names are distinct within each node).
C25_TreeMirrorsTokens ==
    (DtbDone /\ WellFormedInput) =>
        /\ dtbState.pc = "returned"
        /\ dtbState.result # Null
        /\ NodeCount(dtbState.result[1].root[1])
              = TokenCount(DtbBuffer, ToInt(FieldValue(2)), FileOrder,
                           FDT_BEGIN_NODE)
        /\ PropertyTotal(dtbState.result[1].root[1])
              = TokenCount(DtbBuffer, ToInt(FieldValue(2)), FileOrder,
                           FDT_PROP)

\* The header of the file passed every check of parseDTBFile.
HeaderPasses ==
    /\ dtbState.header # Null
    /\ HeaderError(dtbState.header[1], DtbSize) = ""

\* Every read of the walk lies within the file: with no readable byte
\* behind the buffer and no alignment trap, the decoder makes no invalid
\* read.
ReadsWithinInput == parse(dtbInput, <<>>, FALSE).pc # "crashed"

\* C27: for every input that passes header validation, every byte the
\* decoder reads while walking the structure block lies at an index
\* smaller than the input length.
C27_ReadsWithinInput == (DtbDone /\ HeaderPasses) => ReadsWithinInput


----------------------------------------------------------------------------
(* Properties of the text decoder, checked under SpecDTS.                  *)

\* The text decoder has returned from the call on the file.
DtsDone == dtsState.pc = "returned"

\* The root of the tree the text decoder returned.
DtsRoot == dtsState.result[1].root[1]

\* C13: decoding the sample of the specification, written on one line,
\* yields a tree whose root "/" has exactly the string properties
\* compatible = test,device and model = Test Device, in that order, and no
\* child.
C13_SampleDecodes ==
    (DtsDone /\ dtsInput = Some(SampleOneLine)) =>
        /\ dtsState.result # Null
        /\ DtsRoot.name = "/"
        /\ DtsRoot.properties =
             <<DeviceTreeProperty("compatible", StringValue("test,device")),
               DeviceTreeProperty("model", StringValue("Test Device"))>>
        /\ DtsRoot.children = <<>>

\* Line number i of the file (counted from 1) is a property line without
\* "=" that the decoder met inside an open node.
BareLineInNode(i) ==
    LET line == dtsInput[1][i] IN
    /\ \E k \in 1..Len(dtsState.log) :
          dtsState.log[k].line = i /\ dtsState.log[k].branch = "ignored"
    /\ ~IsBlankOrComment(TrimLeft(line))
    /\ find(line, <<"}", ";">>) = npos
    /\ find(line, <<"{">>) = npos
    /\ find(line, <<"=">>) = npos

\* C14: a property line without "=" inside an open node makes the text
\* decoder fail for the whole file: no tree is returned.
C14_MissingEqualsFatal ==
    (DtsDone /\ dtsInput # Null) =>
        \A i \in 1..Len(dtsInput[1]) :
            BareLineInNode(i) => dtsState.result = Null


\* A token of a <...> or [...] value that fails hexadecimal parsing.
FailsHex(token) ==
    /\ token # <<>>
    /\ stoul(IF substr(token, 0, 2) = <<"0", "x">>
             THEN substrFrom(token, 2) ELSE token) < 0

\* The value text of the property that starts on line number i.
ValueText(i) == parseDTSValue(dtsInput[1], i, dtsInput[1][i]).value

\* Step number k of the decoder handled a property whose value is a
\* <...> or [...] list with a token that fails hexadecimal parsing.
BadTokenStep(k) ==
    LET step == dtsState.log[k]
        line == dtsInput[1][step.line]
        value == ValueText(step.line)
        inner == substr(value, 1, Len(value) - 2)
        tokens == SplitOn(inner, " ")
    IN /\ step.branch \in {"property", "warning"}
       /\ Trim(substr(line, 0, find(line, <<"=">>))) # <<>>
       /\ value # <<>>
       /\ \/ value[1] = "<" /\ value[Len(value)] = ">"
          \/ value[1] = "[" /\ value[Len(value)] = "]"
       /\ \E t \in 1..Len(tokens) : FailsHex(tokens[t])

\* The file without the lines first..last.
WithoutLines(lines, first, last) ==
    SubSeq(lines, 1, first - 1) \o SubSeq(lines, last + 1, Len(lines))

\* C15: when a cell token or a byte token of a property fails hexadecimal
\* parsing, the text decoder still returns a tree, and the tree is the one
\* it returns for the file without the lines of that property: the
\* property is not added, everything else is decoded, later lines included.
C15_BadTokenSkipsProperty ==
    (DtsDone /\ dtsInput # Null) =>
        \A k \in 1..Len(dtsState.log) :
            BadTokenStep(k) =>
                LET step == dtsState.log[k]
                    rest == WithoutLines(dtsInput[1], step.line, step.next)
                IN /\ dtsState.result # Null
                   /\ dtsState.result = DTSParser_parse(Some(rest)).result

\* A property with a failing token was met between two properties that
\* were added, the first of them under the same name.
C15_Witness ==
    /\ DtsDone
    /\ dtsInput # Null
    /\ \E k \in 1..Len(dtsState.log) :
        /\ BadTokenStep(k)
        /\ dtsState.log[k].branch = "warning"
        /\ \E j \in 1..(k - 1), l \in (k + 1)..Len(dtsState.log) :
            /\ dtsState.log[j].branch = "property"
            /\ dtsState.log[l].branch = "property"
    /\ DtsRoot.properties # <<>>

\* The line opens a node: it holds "{" before any "=".
OpensNode(line) ==
    /\ find(line, <<"{">>) # npos
    /\ \/ find(line, <<"=">>) = npos
       \/ find(line, <<"{">>) < find(line, <<"=">>)

\* The steps of the decoder, made while a node was open, whose line opens a
\* node.
OpeningSteps ==
    {k \in 1..Len(dtsState.log) :
        OpensNode(dtsInput[1][dtsState.log[k].line])}

\* C26: while the text decoder reads lines, a line that opens a node adds
\* the new node as the last child of the innermost open node, and nothing
\* else adds a node: the returned tree has, besides its root, one node for
\* each line that opens a node among the lines read while a node was
\* open.
C26_OpeningLinesAddNodes ==
    (DtsDone /\ dtsInput # Null /\ dtsState.result # Null) =>
        NodeCount(DtsRoot) = 1 + Cardinality(OpeningSteps)

\* C20: every tree returned by the binary decoder or by the text decoder
\* has a root node named exactly "/".
C20_RootNamedSlash ==
    /\ (DtsDone /\ dtsState.result # Null) => DtsRoot.name = "/"
    /\ (DtbDone /\ dtbState.pc = "returned" /\ dtbState.result # Null) =>
          dtbState.result[1].root[1].name = "/"

----------------------------------------------------------------------------
(* Properties of the decoder selector, checked under SpecSel.              *)

SelDone == selState.pc = "returned"

\* The first four bytes of the content are a magic number.
StartsWithMagic(file) ==
    /\ file # Null
    /\ Len(file[1]) >= 4
    /\ SubSeq(file[1], 1, 4) \in {FDT_MAGIC, FDT_MAGIC_SWAPPED}

\* C16: the selector returns the binary decoder whenever the name carries
\* the .dtb hint or the content starts with either magic value, otherwise
\* the text decoder when the name carries the .dts hint, otherwise no
\* decoder.
C16_SelectorOrder ==
    SelDone =>
        LET name == selInput[1].name
            file == selInput[1].file
        IN selState.parser =
             IF find(name, <<".", "d", "t", "b">>) # npos
                    \/ StartsWithMagic(file)
             THEN Some("DTBParser")
             ELSE IF find(name, <<".", "d", "t", "s">>) # npos
             THEN Some("DTSParser")
             ELSE Null

----------------------------------------------------------------------------
(* Properties of the node objects, checked under SpecNodes.                *)

RECURSIVE ReachableWithin(_, _)
\* The objects reached from the objects of from through children lists.
ReachableWithin(from, steps) ==
    IF steps = 0 THEN from
    ELSE ReachableWithin(
            from \cup UNION {{heap[n].children[i] :
                                i \in 1..Len(heap[n].children)} : n \in from},
            steps - 1)

\* The nodes of the tree below the root, the root included.
Reachable == ReachableWithin({RootId}, Cardinality(NodeIds))

\* findNodeByPath on the root, given the full path of node n, returns n.
RoundTrip(n) ==
    LET full == getFullPath(heap, n) IN
    /\ full.kind = "returned"
    /\ findNodeByPath(heap, RootId, full.path) = Some(n)

\* The number of times node n occurs in the children lists.
Occurrences(n) ==
    Cardinality({<<p, i>> \in NodeIds \X (1..Cardinality(NodeIds) * MaxCalls) :
                    i <= Len(heap[p].children) /\ heap[p].children[i] = n})

\* Only addChild has been called so far, never on the root as the child
\* and never twice on the same child: the nodes below the root form a tree.
BuiltByAddChild ==
    /\ heap # <<>>
    /\ heapCall.removals = 0
    /\ Occurrences(RootId) = 0
    /\ \A n \in NodeIds : Occurrences(n) <= 1

FirstOfItsName(n) ==
    /\ heap[n].parent # Null
    /\ heap[n].name # <<>>
    /\ \A k \in 1..Len(heap[n].name) : heap[n].name[k] # "/"
    /\ LET children == heap[heap[n].parent[1]].children IN
       \E i \in 1..Len(children) :
          /\ children[i] = n
          /\ \A j \in 1..(i - 1) : heap[children[j]].name # heap[n].name

RECURSIVE ChainToRoot(_, _)
\* The parent back-references lead from node n to the root, which has no
\* parent, over nodes that are each the first of their name.
ChainToRoot(n, steps) ==
    IF n = RootId THEN heap[RootId].parent = Null
    ELSE /\ steps > 0
         /\ FirstOfItsName(n)
         /\ ChainToRoot(heap[n].parent[1], steps - 1)

C19_OneParent ==
    heap # <<>> =>
        \A n \in NodeIds \ {RootId} :
            getParent(heap, n) # Null =>
                /\ Occurrences(n) = 1
                /\ FindChild(heap[getParent(heap, n)[1]].children, n) # 0

----------------------------------------------------------------------------
(* Properties of the property list of a node, checked under SpecProps.     *)

\* The node the property calls are made on.
PropsNode == heap[1]

PropsInUse == heap # <<>> /\ heapCall.op \in {"addProperty", "removeProperty"}

\* The names of a list of properties.
NamesOf(properties) == {properties[i].name : i \in 1..Len(properties)}

\* C18: after any sequence of addProperty and removeProperty calls no two
\* properties of the node share a name; addProperty with a name already
\* on the node leaves the property count unchanged; findProperty returns,
\* for every name, the value of the most recent addProperty of that name
\* (null when the name was removed since, or never added).
C18_UniqueNamesLatestWins ==
    PropsInUse =>
        /\ \A i, j \in 1..Len(PropsNode.properties) :
              PropsNode.properties[i].name = PropsNode.properties[j].name
                  => i = j
        /\ (heapCall.op = "addProperty"
                /\ heapCall.name \in NamesOf(heapCall.before)) =>
              getPropertyCount(PropsNode) = Len(heapCall.before)
        /\ \A name \in PropNames :
              findProperty(PropsNode, name) =
                  IF heapCall.latest[name] = Null THEN Null
                  ELSE Some(DeviceTreeProperty(name, heapCall.latest[name][1]))

\* addProperty has just been called with a name the node already had,
\* giving another value than the one it had.
C18_Witness ==
    /\ PropsInUse
    /\ heapCall.op = "addProperty"
    /\ \E i \in 1..Len(heapCall.before) :
        /\ heapCall.before[i].name = heapCall.name
        /\ heapCall.before[i].value # heapCall.value
    /\ Len(heapCall.before) = 2

----------------------------------------------------------------------------
(* Properties of the comparison, checked under SpecCompare.                *)

\* generateDiff has returned the comparison of the two trees.
Compared == diffGenerated /\ lastCall.op = "generateDiff"

BaseRoot == baseTree[1].root[1]

OverlayRoot == overlayTree[1].root[1]

RECURSIVE JoinWords(_, _, _)
\* The numbers from element i on, each as hexadecimal digits (two at least
\* when two is set), separated by single spaces.
JoinWords(d, i, two) ==
    IF i > Len(d) THEN ""
    ELSE (IF i > 1 THEN " " ELSE "")
         \o (IF two THEN Hex2(d[i]) ELSE Hex(d[i]))
         \o JoinWords(d, i + 1, two)

\* The rendering stated: the text of a string, the bytes as two-digit
\* hexadecimal numbers, the cells as hexadecimal words.
StatedRendering(value) ==
    IF value.kind = "string" THEN value.str
    ELSE JoinWords(value.data, 1, value.kind = "binary")

\* The property x of a node, if it has one.
PropertyX(node) == findProperty(node, "x")

\* C21: the oldValue and newValue of a property entry are the stated
\* renderings of the property values: the text of a string with nothing
\* added, bytes as two-digit hexadecimal numbers and cells as hexadecimal
\* words, separated by single spaces.  Stated for the entries of the
\* property x of the root.
C21_Rendering ==
    Compared =>
        \A i \in 1..Len(diffCache) :
            (diffCache[i].path = "/" /\ diffCache[i].propertyName = "x") =>
                /\ PropertyX(BaseRoot) # Null =>
                      diffCache[i].oldValue =
                          StatedRendering(PropertyX(BaseRoot)[1].value)
                /\ PropertyX(OverlayRoot) # Null =>
                      diffCache[i].newValue =
                          StatedRendering(PropertyX(OverlayRoot)[1].value)

\* The entries of the property p of the node compared at path.
EntriesOf(path, p) ==
    {i \in 1..Len(diffCache) :
        diffCache[i].path = path /\ diffCache[i].propertyName = p}

\* The entries of property p are as stated for the nodes b and o compared
\* at path: one Added entry when only o has p, one Removed entry when only
\* b has it, one Modified entry when both have it with values that differ
\* in kind or in content, and no entry otherwise.
PropertyEntriesAsStated(b, o, path, p) ==
    LET old == findProperty(b, p)
        new == findProperty(o, p)
        entries == EntriesOf(path, p)
        theType ==
            IF old = Null /\ new # Null THEN "Added"
            ELSE IF old # Null /\ new = Null THEN "Removed"
            ELSE IF old # Null /\ new # Null /\ old[1].value # new[1].value
            THEN "Modified"
            ELSE "none"
    IN IF theType = "none" THEN entries = {}
       ELSE /\ Cardinality(entries) = 1
            /\ \A i \in entries : diffCache[i].type = theType

\* Both roots have a child of the name.
BothHaveChild(name) ==
    /\ name \in DOMAIN NameMap(BaseRoot.children)
    /\ name \in DOMAIN NameMap(OverlayRoot.children)

\* C23: for two present nodes and every property name p, an Added entry is
\* emitted iff p is only on the overlay node, a Removed entry iff p is only
\* on the base node, a Modified entry iff p is on both with values that
\* differ in kind or, with equal kinds, in content; values of different
\* kinds are Modified also when both are empty or render to the same text.
\* Stated for the roots and for the children a compared with each other.
C23_PropertyEntries ==
    Compared =>
        \A p \in PropNames :
            /\ PropertyEntriesAsStated(BaseRoot, OverlayRoot, "/", p)
            /\ BothHaveChild("a") =>
                  PropertyEntriesAsStated(LastChild(BaseRoot, "a"),
                                          LastChild(OverlayRoot, "a"),
                                          ChildPath("/", "a"), p)

\* The roots hold x as 32-bit cells and as 64-bit cells that render to the
\* same text, and the comparison returned a Modified entry for x whose old
\* and new values are equal.
C23_Witness ==
    /\ Compared
    /\ PropertyX(BaseRoot) = Some(DeviceTreeProperty("x", CellsValue(<<1>>)))
    /\ PropertyX(OverlayRoot) =
          Some(DeviceTreeProperty("x", Cells64Value(<<1>>)))
    /\ \E i \in EntriesOf("/", "x") :
          /\ diffCache[i].type = "Modified"
          /\ diffCache[i].oldValue = diffCache[i].newValue

\* C22: the diff command, given two files that both decode, exits with the
\* success status.
C22_DiffExitsSuccess ==
    lastCall.op = "handleDiff" => lastCall.count = EXIT_SUCCESS

\* The stated full paths of the nodes below a node whose stated path is
\* path: the parent's path, "/" and the name.
RECURSIVE StatedPathsBelow(_, _)
StatedPathsBelow(node, path) ==
    UNION {{path \o "/" \o node.children[i].name}
              \cup StatedPathsBelow(node.children[i],
                                    path \o "/" \o node.children[i].name) :
           i \in 1..Len(node.children)}

\* The stated full paths of the nodes of a tree: "/" for the root, "/" and
\* the name for a child of the root, and as above below that.
StatedPaths(root) ==
    {"/"} \cup
    UNION {{"/" \o root.children[i].name}
              \cup StatedPathsBelow(root.children[i],
                                    "/" \o root.children[i].name) :
           i \in 1..Len(root.children)}

\* C24: every entry carries as path the full path of a node of one of the
\* two trees, "/" for the root, "/name" for a child of the root and the
\* parent's path, "/" and the name below that.
C24_FullPaths ==
    Compared =>
        \A i \in 1..Len(diffCache) :
            diffCache[i].path \in
                StatedPaths(BaseRoot) \cup StatedPaths(OverlayRoot)

RECURSIVE KeepLastOf(_)
\* The children without those that a later child of the same name follows.
KeepLastOf(children) ==
    IF children = <<>> THEN <<>>
    ELSE IF \E j \in 2..Len(children) : children[j].name = Head(children).name
    THEN KeepLastOf(Tail(children))
    ELSE <<Head(children)>> \o KeepLastOf(Tail(children))

\* The root with, of its children of one name, only the last.
KeepLast(root) == [root EXCEPT !.children = KeepLastOf(root.children)]

\* The node objects of a root and its children: object 1 is the root and
\* object i + 1 its child number i (the names of the compared trees are one
\* character long).
HeapOfRoot(root) ==
    <<[name |-> <<"/">>, parent |-> Null,
       children |-> [i \in 1..Len(root.children) |-> i + 1]]>>
    \o [i \in 1..Len(root.children) |->
          [name |-> <<root.children[i].name>>, parent |-> Some(RootId),
           children |-> <<>>]]

\* The object of the first child of the root with the name.
FirstObjectNamed(root, name) ==
    1 + CHOOSE i \in 1..Len(root.children) :
            /\ root.children[i].name = name
            /\ \A j \in 1..(i - 1) : root.children[j].name # name

\* Path lookup of "/" and the name from the root returns the first child of
\* that name.
LookupReturnsFirst(root) ==
    \A i \in 1..Len(root.children) :
        findNodeByPath(HeapOfRoot(root), RootId,
                       <<"/", root.children[i].name>>)
            = Some(FirstObjectNamed(root, root.children[i].name))

\* C28: when a node present in both trees has several direct children of
\* one name on a side, only the last of them takes part in the comparison:
\* the entries are those of the comparison of the two roots with the
\* earlier children of each name left out, so that a difference confined
\* to an earlier child gives no entry; path lookup of the name returns the
\* first such child.
C28_LastComparedFirstFound ==
    Compared =>
        /\ diffCache = compareNodes(Some(KeepLast(BaseRoot)),
                                    Some(KeepLast(OverlayRoot)), "/")
        /\ LookupReturnsFirst(BaseRoot)
        /\ LookupReturnsFirst(OverlayRoot)

\* The base root has two children a, the first with a property the
\* overlay's only child a lacks, the last equal to it: the comparison
\* returned no entry, and path lookup of /a on the base returns the first.
C28_Witness ==
    /\ Compared
    /\ BaseRoot.properties = OverlayRoot.properties
    /\ Len(BaseRoot.children) = 2
    /\ BaseRoot.children[1].name = "a" /\ BaseRoot.children[2].name = "a"
    /\ BaseRoot.children[1].properties # <<>>
    /\ OverlayRoot.children = <<BaseRoot.children[2]>>
    /\ diffCache = <<>>
    /\ findNodeByPath(HeapOfRoot(BaseRoot), RootId, <<"/", "a">>) = Some(2)

\* An entry with Added and Removed exchanged, the old and the new value
\* exchanged, and the description left out.
Exchanged(entry) ==
    [type |-> IF entry.type = "Added" THEN "Removed"
              ELSE IF entry.type = "Removed" THEN "Added"
              ELSE entry.type,
     path |-> entry.path, propertyName |-> entry.propertyName,
     oldValue |-> entry.newValue, newValue |-> entry.oldValue,
     description |-> ""]

\* An entry with the description left out.
WithoutDescription(entry) == [entry EXCEPT !.description = ""]

\* How often a sequence holds an element.
TimesIn(entries, e) == Cardinality({i \in 1..Len(entries) : entries[i] = e})

\* Two sequences hold the same elements the same number of times.
SameMultiset(s, t) ==
    /\ Len(s) = Len(t)
    /\ \A i \in 1..Len(s) : TimesIn(s, s[i]) = TimesIn(t, s[i])

\* The entries of the comparison made the other way round, the overlay as
\* base and the base as overlay.
ReverseDiff == compareNodes(overlayTree[1].root, baseTree[1].root, "/")

\* C29: the entries of diff(base = B, overlay = A) are, as a multiset and
\* ignoring the description, the entries of diff(base = A, overlay = B)
\* with Added and Removed exchanged and oldValue and newValue exchanged;
\* paths and property names are the same and Modified stays Modified.
C29_ReverseDiffExchanged ==
    Compared =>
        SameMultiset([i \in 1..Len(ReverseDiff) |->
                         WithoutDescription(ReverseDiff[i])],
                     [i \in 1..Len(diffCache) |-> Exchanged(diffCache[i])])

\* A comparison returned an Added, a Removed and a Modified entry, and the
\* comparison the other way round returns its entries in another order.
C29_Witness ==
    /\ Compared
    /\ \E i, j, k \in 1..Len(diffCache) :
          /\ diffCache[i].type = "Added"
          /\ diffCache[j].type = "Removed"
          /\ diffCache[k].type = "Modified"
    /\ [i \in 1..Len(ReverseDiff) |-> WithoutDescription(ReverseDiff[i])]
          # [i \in 1..Len(diffCache) |-> Exchanged(diffCache[i])]

----------------------------------------------------------------------------
(* Properties of loadFromFile, checked under SpecLoad.                     *)

\* The root is the root the parser chosen for the file decodes the file
\* into.
IsDecodedRoot(root, name, file) ==
    \E garbage \in Indeterminate, beyond \in Slack, strict \in BOOLEAN :
        LET r == loadFromFile(DeviceTreeObject, name, file,
                              createParser(name, file, garbage),
                              beyond, strict)
        IN r.pc = "returned" /\ r.value /\ r.tree.root = root

\* C30: when loadFromFile returns false, the root and the source
\* identifier of the tree are the same as before the call; when it returns
\* true, the root is the decoded root and the source identifier is the
\* given file name.
C30_LoadFrame ==
    [][lastCall'.op = "loadFromFile" =>
          IF lastCall'.flag
          THEN /\ baseTree'[1].sourceFile = selInput'[1].name
               /\ IsDecodedRoot(baseTree'[1].root, selInput'[1].name,
                                selInput'[1].file)
          ELSE baseTree' = baseTree]_vars

\* A second call of loadFromFile, on a file without a node, returned false
\* and the tree holds the root and the name the first call loaded.
C30_Witness ==
    /\ nOps = 2
    /\ lastCall.op = "loadFromFile"
    /\ ~lastCall.flag
    /\ selInput[1].file = Some(BytesOfLines(NoNodeText))
    /\ baseTree[1].sourceFile = <<"b", ".", "d", "t", "s">>
    /\ baseTree[1].sourceFile # selInput[1].name
    /\ baseTree[1].root[1].properties
          = <<DeviceTreeProperty("a", StringValue("1"))>>
====
